---- MODULE Spec2Model ----
(***************************************************************************)
(* Model of the terraform skill: the push handler (lib/events/onPush.ts),  *)
(* the runApply command handler (lib/commands/runApply.ts), the terraform  *)
(* steps (lib/terraform.ts), the parameter helpers (lib/utils.ts) and the  *)
(* progress listener.  The step engine runSteps is imported from           *)
(* @atomist/skill; it is modelled from section 4.3 of the specification.   *)
(*                                                                         *)
(* JavaScript optional values are sequences of length 0 (undefined) or 1.  *)
(* A "key=value" configuration string is the sequence of its pieces        *)
(* between "=" signs, i.e. what String.split("=") returns.                 *)
(***************************************************************************)
EXTENDS Integers, Sequences, FiniteSets, TLC

None == <<>>

Some(x) == <<x>>

\* JavaScript truthiness of an optional boolean
Truthy(o) == o # None /\ o[1] = TRUE

\* JavaScript truthiness of an optional string
TruthyStr(o) == o # None /\ o[1] # ""

\* `${o}` of an optional string
Render(o) == IF o = None THEN "undefined" ELSE o[1]

--------------------------------------------------------------------------
(* Bounds and input domains *)

\* largest exit status a subprocess returns
MaxStatus == 2
MaxArgs == 2
MaxVars == 2
MaxFiles == 2
MaxCalls == 2
MaxCallbacks == 2

Statuses == 0..MaxStatus

OptBools == {None, Some(FALSE), Some(TRUE)}

\* the skill configuration's parameters (skill.ts); absent keys are None
CoreConfigs ==
  [ branch      : {None, Some("master")},
    autoApprove : OptBools,
    init        : OptBools,
    workspace   : {None, Some(""), Some("test")},
    version     : {None, Some("12.1.1")},
    base        : {None, Some("tf")},
    cmdlineargs : {None, Some(<< <<"no-color">> >>), Some(<< <<"no-color">>, <<"parallelism", "2">> >>)},
    cmdlinevars : {None, Some(<< <<"foo", "bar">> >>)},
    envvars     : {None},
    varfiles    : {None} ]

\* configurations with environment variables, variable files and entries
\* that are not of the form k=v ("foo", "TF_LOG=a=b", "backend-config=k=v")
EntryConfigs ==
  [ branch      : {None},
    autoApprove : {None, Some(TRUE)},
    init        : {None},
    workspace   : {None},
    version     : {None},
    base        : {None, Some("tf")},
    cmdlineargs : {Some(<< <<"no-color">> >>), Some(<< <<"backend-config", "k", "v">> >>)},
    cmdlinevars : {Some(<< <<"foo", "bar">> >>), Some(<< <<"foo">> >>), Some(<< <<"foo", "a", "b">> >>)},
    envvars     : {None,
                   Some(<< <<"TF_LOG", "debug">> >>),
                   Some(<< <<"HOME", "/work">>, <<"GOOGLE_CREDENTIALS", "mine">> >>),
                   Some(<< <<"TF_LOG", "a", "b">> >>)},
    varfiles    : {None, Some(<< "prod.tfvars" >>)} ]

Configs == CoreConfigs \cup EntryConfigs

\* what triggers a run: a push event or the "Run Apply" command
\* channels: the chat channels linked to the repository (push) or the channel
\* the command came from; committer: the chat id the commit lookup resolves
Triggers ==
  [ kind : {"push"}, branch : {"master", "feature-x"},
    channels : {<<>>, <<"infra">>}, committer : {Some("alice")} ]
  \cup
  [ kind : {"push"}, branch : {"master", "feature-x"},
    channels : {<<>>}, committer : {None} ]
  \cup
  [ kind : {"command"}, branch : {"master"},
    channels : {<<"infra">>}, committer : {None} ]

\* what a clone can hold at the relative directories the code resolves:
\* "missing", "notf" (no *.tf file), "tf" (*.tf files, no backend block),
\* "backend" (a *.tf file with a backend block)
Dirs == {"", "tf", "undefined"}

Layout(root, tf, undef) == [ d \in Dirs |-> CASE d = "" -> root [] d = "tf" -> tf [] OTHER -> undef ]

Layouts ==
  { Layout("backend", "missing", "missing"),
    Layout("notf", "backend", "missing"),
    Layout("notf", "tf", "missing"),
    Layout("notf", "notf", "missing"),
    Layout("tf", "missing", "backend") }

\* what the credential query returns; None: the query fails
Secrets == {None, Some("gcp-secret")}

\* the repository the events are about
PushRepo ==
  [ owner |-> "atomist", name |-> "infra", sha |-> "9e48f94", url |-> "https://commit/9e48f94" ]

CorrelationId == "corr-1"

\* process.env when the skill starts
ContainerEnv == [ HOME |-> "/root", TF_IN_AUTOMATION |-> "1" ]

--------------------------------------------------------------------------
VARIABLES
  cfg,            \* ctx.configuration parameters
  trigger,        \* the incoming event or command
  tfApply,        \* ctx.tfApply
  pc,             \* "idle", "running" or "done"
  steps,          \* the step list handed to runSteps
  idx,            \* index of the next step of the list
  params,         \* the registration
  listener,       \* the closure state of slackUpdate
  spawned,        \* subprocess invocations, in order
  sent,           \* chat messages sent, in order
  events,         \* listener callbacks invoked by the engine, in order
  trace,          \* predicate evaluations and action invocations, in order
  engineStarts,   \* number of runSteps calls
  pipelineResult, \* what runSteps returned
  handlerResult,  \* what the handler returned
  builderReg,     \* the registration handed to an argument builder called on its own
  builderCalls,   \* such calls, in order: what each was given and returned
  processEnv,     \* process.env of the skill
  suspended       \* a second run of the same process, parked at a step boundary

vars == << cfg, trigger, tfApply, pc, steps, idx, params, listener, spawned,
           sent, events, trace, engineStarts, pipelineResult, handlerResult,
           builderReg, builderCalls, processEnv, suspended >>

\* a configuration parameter; a key the configuration does not have is undefined
Param(c, key) == IF key \in DOMAIN c THEN c[key] ELSE None

\* the registration runSteps starts from: {}
EmptyParams ==
  [ project |-> None, workspace |-> None, args |-> None, baseLocation |-> None,
    init |-> None, vars |-> None, varsFiles |-> None, envVars |-> None,
    autoApprove |-> None, version |-> None, commitUrl |-> None ]

Init ==
  /\ cfg \in Configs
  /\ trigger \in Triggers
  /\ tfApply = FALSE
  /\ pc = "idle"
  /\ steps = <<>>
  /\ idx = 0
  /\ params = EmptyParams
  /\ listener = [ text |-> <<>>, fullRender |-> <<>>, stepCount |-> 0, finishedCount |-> 0 ]
  /\ spawned = <<>>
  /\ sent = <<>>
  /\ events = <<>>
  /\ trace = <<>>
  /\ engineStarts = 0
  /\ pipelineResult = None
  /\ handlerResult = None
  /\ builderReg = EmptyParams
  /\ builderCalls = <<>>
  /\ processEnv = ContainerEnv
  /\ suspended = None

--------------------------------------------------------------------------
(* lib/terraform.ts: run-predicates and argument builders *)

\* variant: runs init when the flag is set
shouldRunTfInit_Inverted(context, reg) == Truthy(reg.init)

shouldRunTfInit(context, reg) == ~Truthy(reg.init)

\* variant: tests the workspace against undefined only
shouldRunSelectTfWorkspace_Defined(context, reg) == reg.workspace # None

shouldRunSelectTfWorkspace(context, reg) == TruthyStr(reg.workspace)

\* variant: tests that autoApprove is present, not that it is true
shouldRunTerraformApply_Present(context, reg) == reg.autoApprove # None \/ context.tfApply = TRUE

shouldRunTerraformApply(context, reg) == Truthy(reg.autoApprove) \/ context.tfApply = TRUE

shouldRunTfVersion(context, reg) == TruthyStr(reg.version)

RECURSIVE FlattenVars(_)
FlattenVars(vs) ==
  IF vs = <<>> THEN <<>>
  ELSE << "-var", vs[1].tfVar \o "=" \o Render(vs[1].value) >> \o FlattenVars(Tail(vs))

\* variant: renders the var-files before the vars
buildTfVars_FilesFirst(registration) ==
  (IF registration.varsFiles # None
   THEN [i \in 1..Len(registration.varsFiles[1]) |-> "-var-file=" \o registration.varsFiles[1][i]]
   ELSE <<>>)
  \o (IF registration.vars # None THEN FlattenVars(registration.vars[1]) ELSE <<>>)

buildTfVars(registration) ==
  (IF registration.vars # None THEN FlattenVars(registration.vars[1]) ELSE <<>>)
  \o (IF registration.varsFiles # None
      THEN [i \in 1..Len(registration.varsFiles[1]) |-> "-var-file=" \o registration.varsFiles[1][i]]
      ELSE <<>>)

\* variant: renders the separator for every argument
RenderArg_AlwaysEquals(a) == "-" \o a.arg \o "=" \o (IF a.value # None THEN a.value[1] ELSE "")

RenderArg(a) == "-" \o a.arg \o (IF TruthyStr(a.value) THEN "=" \o a.value[1] ELSE "")

\* variant: forgets to disable the interactive prompts
buildTfArgs_NoInput(action, registration) ==
  (CASE action = "apply" -> << "-auto-approve" >>
     [] action = "destroy" -> << "-force" >>
     [] OTHER -> <<>>)
  \o (IF registration.args # None
      THEN [i \in 1..Len(registration.args[1]) |-> RenderArg(registration.args[1][i])]
      ELSE <<>>)

buildTfArgs(action, registration) ==
  (CASE action = "apply" -> << "-auto-approve" >>
     [] action = "destroy" -> << "-force" >>
     [] OTHER -> <<>>)
  \o << "-input=false" >>
  \o (IF registration.args # None
      THEN [i \in 1..Len(registration.args[1]) |-> RenderArg(registration.args[1][i])]
      ELSE <<>>)

\* variant: appends the fixed flag to the caller's argument list
buildTfArgsCall_Pushes(action, registration) ==
  [ out |-> buildTfArgs(action, registration),
    registration |->
      [ registration EXCEPT !.args =
          Some((IF registration.args # None THEN registration.args[1] ELSE <<>>)
               \o << [ arg |-> "input", value |-> Some("false") ] >>) ] ]

\* a call of buildTfArgs: what it returns and the registration it leaves
\* behind (it pushes onto a fresh local array only)
buildTfArgsCall(action, registration) ==
  [ out |-> buildTfArgs(action, registration), registration |-> registration ]

\* variant: consumes the var-files it renders
buildTfVarsCall_Drains(registration) ==
  [ out |-> buildTfVars(registration),
    registration |-> [ registration EXCEPT !.varsFiles = Some(<<>>) ] ]

\* a call of buildTfVars: what it returns and the registration it leaves
\* behind (it maps over the lists into fresh arrays only)
buildTfVarsCall(registration) ==
  [ out |-> buildTfVars(registration), registration |-> registration ]

\* the cwd option of every terraform spawn
SpawnCwd(registration) ==
  IF TruthyStr(registration.baseLocation)
  THEN registration.project[1].path \o "/" \o registration.baseLocation[1]
  ELSE registration.project[1].path

\* one call of project.spawn: what was run, where, and the status it returned
SpawnCall(cmd, args, cwd, env, status) ==
  [ cmd |-> cmd, args |-> args, cwd |-> cwd, env |-> env, status |-> status ]

\* {...a, ...b}
Overlay(a, b) == [ k \in (DOMAIN a) \cup (DOMAIN b) |-> IF k \in DOMAIN b THEN b[k] ELSE a[k] ]

\* variant: the process environment wins
SpawnEnv_ProcessWins(registration) ==
  IF registration.envVars # None THEN Overlay(registration.envVars[1], processEnv) ELSE processEnv

\* the env option of every terraform spawn: {...process.env, ...registration.envVars}
SpawnEnv(registration) ==
  IF registration.envVars # None THEN Overlay(processEnv, registration.envVars[1]) ELSE processEnv

--------------------------------------------------------------------------
(* lib/utils.ts: configuration parsing and setParams *)

convertArgArray(data) ==
  [ arg |-> data[1], value |-> IF Len(data) >= 2 THEN Some(data[2]) ELSE None ]

convertTfVarOk(data) == Len(data) = 2

convertTfVarArray(data) == [ tfVar |-> data[1], value |-> Some(data[2]) ]

\* variant: accepts an entry with more than one "="
convertEnvOk_AtLeast(data) == \A i \in 1..Len(data) : Len(data[i]) >= 2

convertEnvOk(data) == \A i \in 1..Len(data) : Len(data[i]) = 2

\* later entries overwrite earlier ones of the same name
RECURSIVE convertEnvArray(_)
convertEnvArray(data) ==
  IF data = <<>> THEN <<>>
  ELSE LET rest == convertEnvArray(SubSeq(data, 1, Len(data) - 1))
           last == data[Len(data)]
       IN  [ k \in (DOMAIN rest) \cup {last[1]} |-> IF k = last[1] THEN last[2] ELSE rest[k] ]

\* setParams(ctx, params) with the credential query answering `secret`
\* (None: the query fails).  The assignments made before a fault stay.
\* variant: a user-configured variable of that name is kept
InjectSecret_KeepUser(env, secret) ==
  [ k \in (DOMAIN env) \cup {"GOOGLE_CREDENTIALS"} |->
      IF k \in DOMAIN env THEN env[k] ELSE secret ]

\* params.envVars.GOOGLE_CREDENTIALS = secret
InjectSecret(env, secret) ==
  [ k \in (DOMAIN env) \cup {"GOOGLE_CREDENTIALS"} |->
      IF k = "GOOGLE_CREDENTIALS" THEN secret ELSE env[k] ]

setParams(c, p, secret) ==
  LET cargs == Param(c, "cmdlineargs")
      cvars == Param(c, "cmdlinevars")
      cenv  == Param(c, "envvars")
      p1 == [ p EXCEPT
                !.workspace = Param(c, "workspace"),
                !.args = Some(IF cargs # None
                              THEN [i \in 1..Len(cargs[1]) |-> convertArgArray(cargs[1][i])]
                              ELSE <<>>),
                !.baseLocation = Param(c, "base"),
                !.init = Param(c, "init") ]
      varsOk == cvars = None \/ \A i \in 1..Len(cvars[1]) : convertTfVarOk(cvars[1][i])
      p2 == [ p1 EXCEPT
                !.vars = Some(IF cvars # None
                              THEN [i \in 1..Len(cvars[1]) |-> convertTfVarArray(cvars[1][i])]
                              ELSE <<>>),
                !.varsFiles = IF Param(c, "varFiles") # None
                              THEN Param(c, "varsFiles")
                              ELSE Some(<<>>) ]
      envOk == cenv = None \/ convertEnvOk(cenv[1])
      p3 == [ p2 EXCEPT
                !.envVars = Some(IF cenv # None THEN convertEnvArray(cenv[1]) ELSE <<>>),
                !.autoApprove = IF Truthy(Param(c, "autoApprove"))
                                THEN Param(c, "autoApprove") ELSE Some(FALSE),
                !.version = IF TruthyStr(Param(c, "version"))
                            THEN Param(c, "version") ELSE None ]
      env == p3.envVars[1]
      p4 == [ p3 EXCEPT
                !.envVars = Some(InjectSecret(env, secret[1])) ]
  IN  IF ~varsOk THEN [ fault |-> Some("Could not process supplied Terraform var"), params |-> p1 ]
      ELSE IF ~envOk THEN [ fault |-> Some("Could not process argument!"), params |-> p2 ]
      ELSE IF secret = None THEN [ fault |-> Some("credential query failed"), params |-> p3 ]
      ELSE [ fault |-> None, params |-> p4 ]


--------------------------------------------------------------------------
(* lib/events/onPush.ts: the progress listener returned by slackUpdate *)

\* the step context the predicates and steps read
Context == [ kind |-> trigger.kind, tfApply |-> tfApply ]

\* the repo record the handler gives slackUpdate
ListenerRepo ==
  [ name |-> PushRepo.name, owner |-> PushRepo.owner, sha |-> PushRepo.sha,
    branch |-> IF trigger.kind = "push" THEN Some(trigger.branch) ELSE None,
    commitUrl |-> PushRepo.url ]

updateRepo(repo, p) ==
  IF p.project = None THEN p
  ELSE [ p EXCEPT
           !.project = Some([ p.project[1] EXCEPT
                                !.id = [ @ EXCEPT !.repo = repo.name, !.owner = repo.owner,
                                                  !.sha = repo.sha, !.branch = repo.branch ] ]),
           !.commitUrl = Some(repo.commitUrl) ]

\* who updateSlackState and the plan step notify; None: the committer lookup throws
NotifyTarget ==
  IF Len(trigger.channels) > 0 THEN Some([ type |-> "channel", value |-> trigger.channels[1] ])
  ELSE IF trigger.committer # None THEN Some([ type |-> "person", value |-> trigger.committer[1] ])
  ELSE None

\* variant: the id changes once steps have finished
ProgressMsgId_PerStep ==
  IF trigger.kind = "push"
  THEN (IF listener.finishedCount > 1 THEN CorrelationId \o "-later" ELSE CorrelationId)
  ELSE "apply-" \o CorrelationId

\* the message id of updateSlackState: ctx.correlationId on a push, ctx.msgId on a command
ProgressMsgId == IF trigger.kind = "push" THEN CorrelationId ELSE "apply-" \o CorrelationId

\* variant: only the last step's state is shown
FinalState_OnlyAtEnd(step, stepCount, state) ==
  IF step = stepCount THEN state ELSE "in_process"

\* the badge state buildMessage renders
FinalState(step, stepCount, state) ==
  IF step = stepCount \/ state = "failure" THEN state ELSE "in_process"

\* updateSlackState: the messages it sends (none when the lookup throws)
updateSlackState(l, state) ==
  IF NotifyTarget = None THEN <<>>
  ELSE << [ id |-> ProgressMsgId, to |-> NotifyTarget[1], kind |-> "progress",
            state |-> FinalState(l.finishedCount, l.stepCount, state),
            step |-> l.finishedCount, steps |-> l.stepCount,
            text |-> l.text, fullRender |-> l.fullRender, button |-> None ] >>

ListenerStarting(l, step, p) ==
  LET l1 == [ l EXCEPT !.text = Append(@, "Running: " \o step) ]
  IN  [ listener |-> l1, params |-> updateRepo(ListenerRepo, p), msgs |-> updateSlackState(l1, "in_process") ]

\* variant: does not count the skipped step as finished
ListenerSkipped_NoCount(l, step, p) ==
  LET l1 == [ l EXCEPT !.text = Append(@, "Skipped: " \o step) ]
  IN  [ listener |-> l1, params |-> updateRepo(ListenerRepo, p), msgs |-> updateSlackState(l1, "skipped") ]

ListenerSkipped(l, step, p) ==
  LET l1 == [ l EXCEPT !.text = Append(@, "Skipped: " \o step), !.finishedCount = @ + 1 ]
  IN  [ listener |-> l1, params |-> updateRepo(ListenerRepo, p), msgs |-> updateSlackState(l1, "skipped") ]

\* variant: does not count the failed step as finished
ListenerFailed_NoCount(l, step, p, error) ==
  LET l1 == [ l EXCEPT !.text = Append(@, "Failed: " \o step \o ": " \o error) ]
  IN  [ listener |-> l1, params |-> updateRepo(ListenerRepo, p), msgs |-> updateSlackState(l1, "failure") ]

ListenerFailed(l, step, p, error) ==
  LET l1 == [ l EXCEPT !.finishedCount = @ + 1, !.text = Append(@, "Failed: " \o step \o ": " \o error) ]
  IN  [ listener |-> l1, params |-> updateRepo(ListenerRepo, p), msgs |-> updateSlackState(l1, "failure") ]

\* variant: no result is hidden
IsHidden_Never(result) == FALSE

\* result.visibility === "hidden"; a result without the field is not
IsHidden(result) == "visibility" \in DOMAIN result /\ result.visibility = Some("hidden")

\* result is None when the step returned undefined: reading result.visibility
\* then throws after finishedCount was incremented
ListenerCompleted(l, step, p, result) ==
  LET l0 == [ l EXCEPT !.finishedCount = @ + 1 ]
      p1 == updateRepo(ListenerRepo, p)
  IN  IF result = None THEN [ listener |-> l0, params |-> p1, msgs |-> <<>> ]
      ELSE IF IsHidden(result[1]) THEN [ listener |-> l0, params |-> p1, msgs |-> <<>> ]
      ELSE IF result[1].code # 0
      THEN LET l1 == [ l0 EXCEPT !.text = Append(@, "Failed: " \o step \o ": " \o Render(result[1].reason)) ]
           IN  [ listener |-> l1, params |-> p1, msgs |-> updateSlackState(l1, "failure") ]
      ELSE IF TruthyStr(result[1].reason)
      THEN LET l1 == [ l0 EXCEPT !.text = Append(@, "Completed: " \o step),
                                 !.fullRender = Append(@, result[1].reason[1]) ]
           IN  [ listener |-> l1, params |-> p1, msgs |-> updateSlackState(l1, "success") ]
      ELSE LET l1 == [ l0 EXCEPT !.text = Append(@, "Completed: " \o step) ]
           IN  [ listener |-> l1, params |-> p1, msgs |-> updateSlackState(l1, "success") ]


--------------------------------------------------------------------------
(* The steps.  Each operator is the set of the outcomes of one call of the *)
(* step's run function on registration p: the fault it throws (if any),    *)
(* the result it returns (None: undefined), the registration afterwards,   *)
(* the subprocesses it spawned and the chat messages it sent.              *)

Outcome(fault, result, p, spawns, msgs) ==
  [ fault |-> fault, result |-> result, params |-> p, spawns |-> spawns, msgs |-> msgs ]

Result(code, reason) == Some([ code |-> code, reason |-> reason ])

SetParamsStepRun(p) ==
  { LET r == setParams(cfg, p, secret)
    IN  Outcome(r.fault, IF r.fault = None THEN Result(0, None) ELSE None, r.params, <<>>, <<>>)
    : secret \in Secrets }

\* the state of the directory `${project.path()}/${baseLocation}`
BaseDir(p) == p.project[1].fs[Render(p.baseLocation)]

hclCodePresent(p) ==
  IF BaseDir(p) = "missing"
  THEN [ code |-> 1, reason |-> Some("Supplied baseLocation [" \o Render(p.baseLocation) \o "] does not exist!") ]
  ELSE IF BaseDir(p) \in {"tf", "backend"}
  THEN [ code |-> 0, reason |-> None ]
  ELSE [ code |-> 1, reason |-> Some("No HCL code exists in supplied base location [" \o Render(p.baseLocation) \o "]") ]

\* what ctx.project.clone returns for the repository of determineProjectDetails
ClonedProject(layout) ==
  [ id |-> [ owner |-> PushRepo.owner, repo |-> PushRepo.name, sha |-> PushRepo.sha,
             branch |-> None, credential |-> "github-token" ],
    path |-> "/clone", fs |-> layout,
    spawn |-> "spawn handle", exec |-> "exec handle" ]

LoadProjectStepRun(p) ==
  { Outcome(Some("clone failed"), None, p, <<>>, <<>>) }
  \cup
  { LET p1 == [ p EXCEPT !.project = Some(ClonedProject(layout)) ]
        present == hclCodePresent(p1)
    IN  Outcome(None,
                IF present.code # 0 THEN Result(1, present.reason) ELSE Result(0, None),
                p1, <<>>, <<>>)
    : layout \in Layouts }

\* variant: reports success whatever `install` exited with
setTfVersion_IgnoreInstall(registration) ==
  { LET use == SpawnCall("tfenv", << "use", Render(registration.version) >>, None, processEnv, useStatus)
        install == SpawnCall("tfenv", << "install", Render(registration.version) >>, None, processEnv, installStatus)
    IN  IF useStatus = 0
        THEN Outcome(None, None, registration, << use >>, <<>>)
        ELSE Outcome(None, Result(0, Some("tfenv install: stdout")), registration, << use, install >>, <<>>)
    : useStatus \in Statuses, installStatus \in Statuses }

setTfVersion(registration) ==
  { LET use == SpawnCall("tfenv", << "use", Render(registration.version) >>, None, processEnv, useStatus)
        install == SpawnCall("tfenv", << "install", Render(registration.version) >>, None, processEnv, installStatus)
    IN  IF useStatus = 0
        THEN Outcome(None, None, registration, << use >>, <<>>)
        ELSE IF installStatus # 0
        THEN Outcome(None, Result(1, Some("tfenv install: stderr")), registration, << use, install >>, <<>>)
        ELSE Outcome(None, Result(0, Some("tfenv install: stdout")), registration, << use, install >>, <<>>)
    : useStatus \in Statuses, installStatus \in Statuses }

runTfInit(registration) ==
  { LET call == SpawnCall("terraform", << "init" >> \o buildTfVars(registration),
                          Some(SpawnCwd(registration)), SpawnEnv(registration), status)
    IN  Outcome(None,
                IF status = 0 THEN Result(0, None) ELSE Result(1, Some("Failed to run terraform init!")),
                registration, << call >>, <<>>)
    : status \in Statuses }

runTfValidate(registration) ==
  { [ call |-> SpawnCall("terraform", << "validate" >>, Some(SpawnCwd(registration)), SpawnEnv(registration), status),
      status |-> IF status = 0 THEN [ code |-> 0, reason |-> None ]
                 ELSE [ code |-> 1, reason |-> Some("Failed to run terraform validate!") ] ]
    : status \in Statuses }

\* variant: is content with any *.tf file
BackendFound_AnyTf(p) == BaseDir(p) \in {"tf", "backend"}

\* `found`: a *.tf file of `${project.path()}/${baseLocation}` matches the
\* backend grammar
BackendFound(p) == BaseDir(p) = "backend"

ValidateTerraformRun(p) ==
  { IF v.status.code # 0
    THEN Outcome(None, Result(2, v.status.reason), p, << v.call >>, <<>>)
    ELSE IF BaseDir(p) = "missing"
    THEN Outcome(Some("ENOENT: no such file or directory"), None, p, << v.call >>, <<>>)
    ELSE IF ~BackendFound(p)
    THEN Outcome(None, Result(3, Some("No backend configured! State will be lost!")), p, << v.call >>, <<>>)
    ELSE Outcome(None, Result(0, None), p, << v.call >>, <<>>)
    : v \in runTfValidate(p) }

\* variant: forgets the workspace once it is selected
selectTfWorkspace_Clears(registration) ==
  { LET call == SpawnCall("terraform", << "workspace", "select", Render(registration.workspace) >>,
                          Some(SpawnCwd(registration)), SpawnEnv(registration), status)
    IN  Outcome(None,
                IF status = 0 THEN Result(0, None)
                ELSE Result(1, Some("Failed to run terraform workspace select!")),
                [ registration EXCEPT !.workspace = None ], << call >>, <<>>)
    : status \in Statuses }

selectTfWorkspace(registration) ==
  { LET call == SpawnCall("terraform", << "workspace", "select", Render(registration.workspace) >>,
                          Some(SpawnCwd(registration)), SpawnEnv(registration), status)
    IN  Outcome(None,
                IF status = 0 THEN Result(0, None)
                ELSE Result(1, Some("Failed to run terraform workspace select!")),
                registration, << call >>, <<>>)
    : status \in Statuses }

\* variant: every failing exit status is reported as code 1
executeTfAction_Normalised(action, registration) ==
  { [ call |-> SpawnCall("terraform",
                         << action >> \o buildTfArgs(action, registration) \o buildTfVars(registration),
                         Some(SpawnCwd(registration)), SpawnEnv(registration), status),
      code |-> IF status = 0 THEN 0 ELSE 1,
      message |-> action \o " output" ]
    : status \in Statuses }

\* executeTfAction: the spawn it makes and, per exit status, what it returns
executeTfAction(action, registration) ==
  { [ call |-> SpawnCall("terraform",
                         << action >> \o buildTfArgs(action, registration) \o buildTfVars(registration),
                         Some(SpawnCwd(registration)), SpawnEnv(registration), status),
      code |-> status,
      message |-> action \o " output" ]
    : status \in Statuses }

\* variant: puts the extra argument before the user's
PlanArgs_Prepend(p) ==
  [ p EXCEPT !.args = Some(<< [ arg |-> "detailed-exitcode", value |-> None ] >> \o p.args[1]) ]

\* the registration the plan step hands to executeTfAction: a deep copy with
\* one more argument
PlanArgs(p) ==
  [ p EXCEPT !.args = Some(p.args[1] \o << [ arg |-> "detailed-exitcode", value |-> None ] >>) ]

\* variant: takes "changes present" for the error status
PlanIsError_Two(code) == code = 2

\* the plan exit status the plan step treats as a failure
PlanIsError(code) == code = 1

\* variant: the extra argument is pushed onto the registration itself
RegistrationAfterPlan_NoCopy(p, changes) ==
  [ p EXCEPT !.args = Some(p.args[1] \o << [ arg |-> "detailed-exitcode", value |-> None ] >>) ]

\* variant: notes on the registration whether the plan found changes
RegistrationAfterPlan_Records(p, changes) == [ p EXCEPT !.autoApprove = Some(changes) ]

\* the registration the plan step leaves behind: the extra argument went to
\* a deep copy, and nothing is assigned to params or ctx afterwards
RegistrationAfterPlan(p, changes) == p

\* variant: offers the control after every plan that did not fail
PlanHasChanges_NonError(code) == code # 1

\* `changes` of the plan step
PlanHasChanges(code) == code = 2

\* variant: sends the plan message whatever autoApprove is
SendsPlanMessage_Always(p) == TRUE

\* "Send message only if autoApprove is not true"
SendsPlanMessage(p) == ~Truthy(p.autoApprove)

\* variant: the omit list misses id.credential
OmitFromProject_KeepsCredential(project) ==
  [ k \in DOMAIN project \ { "spawn", "exec" } |-> project[k] ]

\* _.omit(params.project, ["spawn", "exec", "id.credential"])
OmitFromProject(project) ==
  [ k \in DOMAIN project \ { "spawn", "exec" } |->
      IF k = "id" THEN [ f \in DOMAIN project.id \ { "credential" } |-> project.id[f] ]
      ELSE project[k] ]

\* JSON.stringify of a project: its functions (path) are dropped; fs is the
\* clone on disk, not a property of the object
Serialized(project) ==
  [ k \in DOMAIN project \ { "path", "fs" } |-> project[k] ]

\* the "Run Apply" button: the runApply command with the JSON of the project
\* (without spawn, exec and id.credential; JSON drops its other functions),
\* the message id and the commit url
ApplyButton(p, msgId) ==
  [ text |-> "Run Apply", command |-> "runApply",
    data |-> [ project |-> Serialized(OmitFromProject(p.project[1])),
               msgId |-> msgId,
               commitUrl |-> PushRepo.url ] ]

RunTerraformPlanRun(p) ==
  { LET msgId == "apply-" \o CorrelationId
        msgText == "*Plan Output* " \o r.message
        changes == PlanHasChanges(r.code)
        msg == [ id |-> msgId, to |-> NotifyTarget[1], kind |-> "plan",
                 state |-> "plan", step |-> 0, steps |-> 0,
                 text |-> << msgText >>, fullRender |-> <<>>,
                 button |-> IF changes THEN Some(ApplyButton(p, msgId)) ELSE None ]
    IN  IF PlanIsError(r.code)
        THEN Outcome(None, Result(r.code, Some("Error while running Terraform!  Exit code: 1")), p, << r.call >>, <<>>)
        ELSE IF NotifyTarget = None
        THEN Outcome(Some("committer lookup failed"), None, p, << r.call >>, <<>>)
        ELSE Outcome(None, Result(0, Some(msgText)), RegistrationAfterPlan(p, changes), << r.call >>,
                     IF SendsPlanMessage(p) THEN << msg >> ELSE <<>>)
    : r \in executeTfAction("plan", PlanArgs(p)) }

\* variant: a failing apply is tried once more
RunTerraformApplyRun_Retry(p) ==
  { Outcome(None,
            IF r.code = 0 THEN Result(r.code, Some("*Apply Output:* " \o r.message))
            ELSE Result(again.code, Some("*Apply Output:* " \o again.message)),
            p, IF r.code = 0 THEN << r.call >> ELSE << r.call, again.call >>, <<>>)
    : r \in executeTfAction("apply", p), again \in executeTfAction("apply", p) }

RunTerraformApplyRun(p) ==
  { Outcome(None, Result(r.code, Some("*Apply Output:* " \o r.message)), p, << r.call >>, <<>>)
    : r \in executeTfAction("apply", p) }


--------------------------------------------------------------------------
(* The step lists and the engine (runSteps of @atomist/skill, section 4.3) *)

\* variant: the plan step is listed before the init step
PushSteps_PlanFirst ==
  << "Set Parameters", "Load Project", "Set Terraform Version", "Terraform Plan",
     "Initialize Terraform", "Validate Terraform", "Select Terraform Workspace",
     "Terraform Apply" >>

PushSteps ==
  << "Set Parameters", "Load Project", "Set Terraform Version", "Initialize Terraform",
     "Validate Terraform", "Select Terraform Workspace", "Terraform Plan", "Terraform Apply" >>

ApplySteps ==
  << "Set Parameters", "Load Project", "Set Terraform Version", "Initialize Terraform",
     "Validate Terraform", "Select Terraform Workspace", "Terraform Apply" >>

\* the steps that define runWhen
HasRunWhen(name) ==
  name \in { "Set Terraform Version", "Initialize Terraform",
             "Select Terraform Workspace", "Terraform Apply" }

RunWhen(name, context, p) ==
  CASE name = "Set Terraform Version" -> shouldRunTfVersion(context, p)
    [] name = "Initialize Terraform" -> shouldRunTfInit(context, p)
    [] name = "Select Terraform Workspace" -> shouldRunSelectTfWorkspace(context, p)
    [] name = "Terraform Apply" -> shouldRunTerraformApply(context, p)
    [] OTHER -> TRUE

StepRun(name, p) ==
  CASE name = "Set Parameters" -> SetParamsStepRun(p)
    [] name = "Load Project" -> LoadProjectStepRun(p)
    [] name = "Set Terraform Version" -> setTfVersion(p)
    [] name = "Initialize Terraform" -> runTfInit(p)
    [] name = "Validate Terraform" -> ValidateTerraformRun(p)
    [] name = "Select Terraform Workspace" -> selectTfWorkspace(p)
    [] name = "Terraform Plan" -> RunTerraformPlanRun(p)
    [] name = "Terraform Apply" -> RunTerraformApplyRun(p)

\* variant: the reason test is inverted
HandlerReturn_Inverted(result) ==
  [ code |-> result.code,
    reason |-> IF result.code # 0 THEN Some("Success") ELSE result.reason ]

\* the handler's return statement: code, and "Success" in place of the reason on code 0
HandlerReturn(result) ==
  [ code |-> result.code,
    reason |-> IF result.code = 0 THEN Some("Success") ELSE result.reason ]

\* the pipeline result when every step completed with code 0 or was skipped
SuccessResult == [ code |-> 0, reason |-> Some("Success") ]

\* variant: a fault is reported as success
FaultResult_Zero(name, error) == [ code |-> 0, reason |-> Some("'" \o name \o "' errored with: " \o error) ]

\* the pipeline result after a fault
FaultResult(name, error) == [ code |-> 1, reason |-> Some("'" \o name \o "' errored with: " \o error) ]

\* the pipeline stops with `result`; the handler returns
Stop(result) ==
  /\ pc' = "done"
  /\ idx' = idx
  /\ pipelineResult' = Some(result)
  /\ handlerResult' = Some(HandlerReturn(result))

\* the pipeline moves to the next step, or ends after the last one
Advance ==
  IF idx = Len(steps)
  THEN Stop(SuccessResult)
  ELSE /\ pc' = "running"
       /\ idx' = idx + 1
       /\ UNCHANGED << pipelineResult, handlerResult >>

TraceOp(op, name) == [ op |-> op, step |-> name ]

\* variant: a fault is reported through `completed`
Event_FaultCompletes(cb, name, result, error) ==
  [ cb |-> IF cb = "failed" THEN "completed" ELSE cb, step |-> name, result |-> result, error |-> error ]

\* a listener callback the engine invoked, with the result or error it passed
Event(cb, name, result, error) == [ cb |-> cb, step |-> name, result |-> result, error |-> error ]

\* variant: the pipeline never stops on a result
StopsPipeline_Never(result) == FALSE

\* a step result that ends the pipeline
StopsPipeline(result) == result # None /\ result[1].code # 0

\* a step whose predicate is false: `skipped` is notified, the action is not invoked
SkipStep(name) ==
  LET cb == ListenerSkipped(listener, name, params)
  IN  /\ trace' = Append(trace, TraceOp("predicate", name))
      /\ events' = Append(events, Event("skipped", name, None, None))
      /\ listener' = cb.listener
      /\ params' = cb.params
      /\ sent' = sent \o cb.msgs
      /\ spawned' = spawned
      /\ Advance

\* a step that runs: `starting`, the action, then `completed` or `failed`
ExecuteStep(name) ==
  LET st == ListenerStarting(listener, name, params)
  IN  \E o \in StepRun(name, st.params) :
        LET faulted == o.fault # None
            cb == IF faulted THEN ListenerFailed(st.listener, name, o.params, o.fault[1])
                  ELSE ListenerCompleted(st.listener, name, o.params, o.result)
        IN  /\ trace' = trace \o (IF HasRunWhen(name) THEN << TraceOp("predicate", name) >> ELSE <<>>)
                              \o << TraceOp("action", name) >>
                              \o (IF faulted THEN << TraceOp("fault", name) >> ELSE <<>>)
            /\ events' = events \o << Event("starting", name, None, None),
                                      IF faulted THEN Event("failed", name, None, o.fault)
                                      ELSE Event("completed", name, o.result, None) >>
            /\ listener' = cb.listener
            /\ params' = cb.params
            /\ sent' = sent \o st.msgs \o o.msgs \o cb.msgs
            /\ spawned' = spawned \o o.spawns
            /\ IF faulted THEN Stop(FaultResult(name, o.fault[1]))
               ELSE IF StopsPipeline(o.result) THEN Stop(o.result[1])
               ELSE Advance

\* one iteration of the engine's loop, for the step called `name`
EngineStep(name) ==
  /\ IF RunWhen(name, Context, params) THEN ExecuteStep(name) ELSE SkipStep(name)
  /\ UNCHANGED << cfg, trigger, tfApply, steps, engineStarts, builderReg, builderCalls, processEnv, suspended >>

--------------------------------------------------------------------------
(* The handlers *)

\* variant: skips the pushes to the configured branch
BranchMismatch_Inverted(branch, pushBranch) == TruthyStr(branch) /\ branch[1] = pushBranch

\* the branch test of the push handler
BranchMismatch(branch, pushBranch) == TruthyStr(branch) /\ ~(branch[1] = pushBranch)

\* lib/events/onPush.ts handler, up to the call of runSteps
PushHandler ==
  /\ pc = "idle"
  /\ trigger.kind = "push"
  /\ processEnv' = [ processEnv EXCEPT !["HOME"] = "/tmp" ]
  /\ IF BranchMismatch(cfg.branch, trigger.branch)
     THEN /\ pc' = "done"
          /\ handlerResult' = Some([ code |-> 0,
                 reason |-> Some("Incoming branch [" \o trigger.branch
                                 \o "] does not match configured branch ["
                                 \o cfg.branch[1] \o "], skipping.") ])
          /\ UNCHANGED << steps, idx, listener, engineStarts >>
     ELSE /\ pc' = "running"
          /\ steps' = PushSteps
          /\ idx' = 1
          /\ listener' = [ text |-> <<>>, fullRender |-> <<>>,
                           stepCount |-> Len(PushSteps), finishedCount |-> 0 ]
          /\ engineStarts' = engineStarts + 1
          /\ UNCHANGED handlerResult
  /\ UNCHANGED << cfg, trigger, tfApply, params, spawned, sent, events, trace, pipelineResult,
                  builderReg, builderCalls, suspended >>

\* lib/commands/runApply.ts handler, up to the call of runSteps
RunApplyHandler ==
  /\ pc = "idle"
  /\ trigger.kind = "command"
  /\ tfApply' = TRUE
  /\ pc' = "running"
  /\ steps' = ApplySteps
  /\ idx' = 1
  /\ listener' = [ text |-> <<>>, fullRender |-> <<>>,
                   stepCount |-> Len(ApplySteps), finishedCount |-> 0 ]
  /\ engineStarts' = engineStarts + 1
  /\ UNCHANGED << cfg, trigger, params, spawned, sent, events, trace, pipelineResult, handlerResult,
                  builderReg, builderCalls, processEnv, suspended >>

SetParamsStep ==
  /\ pc = "running"
  /\ steps[idx] = "Set Parameters"
  /\ EngineStep("Set Parameters")

LoadProjectStep ==
  /\ pc = "running"
  /\ steps[idx] = "Load Project"
  /\ EngineStep("Load Project")

SetTerraformVersion ==
  /\ pc = "running"
  /\ steps[idx] = "Set Terraform Version"
  /\ EngineStep("Set Terraform Version")

InitTerraform ==
  /\ pc = "running"
  /\ steps[idx] = "Initialize Terraform"
  /\ EngineStep("Initialize Terraform")

ValidateTerraform ==
  /\ pc = "running"
  /\ steps[idx] = "Validate Terraform"
  /\ EngineStep("Validate Terraform")

SelectWorkspaceTerraform ==
  /\ pc = "running"
  /\ steps[idx] = "Select Terraform Workspace"
  /\ EngineStep("Select Terraform Workspace")

RunTerraformPlan ==
  /\ pc = "running"
  /\ steps[idx] = "Terraform Plan"
  /\ EngineStep("Terraform Plan")

RunTerraformApply ==
  /\ pc = "running"
  /\ steps[idx] = "Terraform Apply"
  /\ EngineStep("Terraform Apply")

Next ==
  \/ PushHandler
  \/ RunApplyHandler
  \/ SetParamsStep
  \/ LoadProjectStep
  \/ SetTerraformVersion
  \/ InitTerraform
  \/ ValidateTerraform
  \/ SelectWorkspaceTerraform
  \/ RunTerraformPlan
  \/ RunTerraformApply

Spec == Init /\ [][Next]_vars

--------------------------------------------------------------------------
(* The argument builders called on their own, for every registration *)

SeqsUpTo(S, n) == UNION { [1..k -> S] : k \in 0..n }

\* TerraformArg: a flag with no value ("k"), an empty one ("k=") or a value
BuilderArgs ==
  { [ arg |-> "no-color", value |-> None ],
    [ arg |-> "lock", value |-> Some("") ],
    [ arg |-> "lock", value |-> Some("false") ] }

\* TerraformVar: convertTfVarArray only produces name/value pairs
BuilderVars ==
  { [ tfVar |-> "foo", value |-> Some("bar") ], [ tfVar |-> "region", value |-> Some("") ] }

BuilderFiles == {"a.tfvars", "b.tfvars"}

Registrations ==
  { [ EmptyParams EXCEPT !.args = a, !.vars = v, !.varsFiles = f ] :
      a \in {None} \cup { Some(x) : x \in SeqsUpTo(BuilderArgs, MaxArgs) },
      v \in {None} \cup { Some(x) : x \in SeqsUpTo(BuilderVars, MaxVars) },
      f \in {None} \cup { Some(x) : x \in SeqsUpTo(BuilderFiles, MaxFiles) } }

BuilderInit ==
  /\ cfg = CHOOSE c \in Configs : TRUE
  /\ trigger = CHOOSE t \in Triggers : TRUE
  /\ tfApply = FALSE
  /\ pc = "idle"
  /\ steps = <<>>
  /\ idx = 0
  /\ params = EmptyParams
  /\ listener = [ text |-> <<>>, fullRender |-> <<>>, stepCount |-> 0, finishedCount |-> 0 ]
  /\ spawned = <<>>
  /\ sent = <<>>
  /\ events = <<>>
  /\ trace = <<>>
  /\ engineStarts = 0
  /\ pipelineResult = None
  /\ handlerResult = None
  /\ builderReg \in Registrations
  /\ builderCalls = <<>>
  /\ processEnv = ContainerEnv
  /\ suspended = None

BuilderFrame ==
  UNCHANGED << cfg, trigger, tfApply, pc, steps, idx, params, listener, spawned,
               sent, events, trace, engineStarts, pipelineResult, handlerResult, processEnv, suspended >>

CallBuildTfArgs ==
  /\ Len(builderCalls) < MaxCalls
  /\ \E action \in {"plan", "apply", "destroy"} :
       /\ builderCalls' = Append(builderCalls,
              [ fn |-> "buildTfArgs", action |-> action, given |-> builderReg,
                out |-> buildTfArgsCall(action, builderReg).out ])
       /\ builderReg' = buildTfArgsCall(action, builderReg).registration
  /\ BuilderFrame

CallBuildTfVars ==
  /\ Len(builderCalls) < MaxCalls
  /\ builderCalls' = Append(builderCalls,
         [ fn |-> "buildTfVars", action |-> "", given |-> builderReg,
           out |-> buildTfVarsCall(builderReg).out ])
  /\ builderReg' = buildTfVarsCall(builderReg).registration
  /\ BuilderFrame

BuilderNext == CallBuildTfArgs \/ CallBuildTfVars

BuilderSpec == BuilderInit /\ [][BuilderNext]_vars

--------------------------------------------------------------------------
(* The progress listener called on its own, for every result a step may return *)

\* the closure state of slackUpdate some way into a two-step run
ListenerStates ==
  [ text : {<<>>, << "Running: Terraform Plan" >>},
    fullRender : {<<>>, << "*Plan Output* plan output" >>},
    stepCount : {2},
    finishedCount : {0, 1} ]

\* HandlerStatus: code, optional reason, optional visibility
CallbackResults ==
  [ code : {0, 1}, reason : {None, Some("step output")}, visibility : {None, Some("hidden")} ]

ListenerInit ==
  /\ cfg = CHOOSE c \in Configs : TRUE
  /\ trigger \in Triggers
  /\ tfApply = FALSE
  /\ pc = "idle"
  /\ steps = <<>>
  /\ idx = 0
  /\ params = EmptyParams
  /\ listener \in ListenerStates
  /\ spawned = <<>>
  /\ sent = <<>>
  /\ events = <<>>
  /\ trace = <<>>
  /\ engineStarts = 0
  /\ pipelineResult = None
  /\ handlerResult = None
  /\ builderReg = EmptyParams
  /\ builderCalls = <<>>
  /\ processEnv = ContainerEnv
  /\ suspended = None

\* a callback: the closure state, the registration and the messages change
Callback(cb, event) ==
  /\ Len(events) < MaxCallbacks
  /\ listener' = cb.listener
  /\ params' = cb.params
  /\ sent' = sent \o cb.msgs
  /\ events' = Append(events, event)
  /\ UNCHANGED << cfg, trigger, tfApply, pc, steps, idx, spawned, trace, engineStarts,
                  pipelineResult, handlerResult, builderReg, builderCalls, processEnv, suspended >>

StartingCallback ==
  Callback(ListenerStarting(listener, "Terraform Plan", params),
           Event("starting", "Terraform Plan", None, None))

SkippedCallback ==
  Callback(ListenerSkipped(listener, "Terraform Plan", params),
           Event("skipped", "Terraform Plan", None, None))

FailedCallback ==
  Callback(ListenerFailed(listener, "Terraform Plan", params, "boom"),
           Event("failed", "Terraform Plan", None, Some("boom")))

CompletedCallback ==
  \E result \in {None} \cup { Some(r) : r \in CallbackResults } :
    Callback(ListenerCompleted(listener, "Terraform Plan", params, result),
             Event("completed", "Terraform Plan", result, None))

ListenerNext == StartingCallback \/ SkippedCallback \/ FailedCallback \/ CompletedCallback

ListenerSpec == ListenerInit /\ [][ListenerNext]_vars

--------------------------------------------------------------------------
(* Two runs in one process, interleaved at step boundaries.  Each handler  *)
(* call has its own ctx, its own registration (made by runSteps) and its   *)
(* own slackUpdate closure; process.env belongs to the process.            *)

\* what one handler call owns: its ctx (trigger, tfApply), the engine's
\* position and registration, the closure of slackUpdate, and its record of
\* subprocesses, messages, callbacks and results
RunState ==
  [ trigger |-> trigger, tfApply |-> tfApply, pc |-> pc, steps |-> steps, idx |-> idx,
    params |-> params, listener |-> listener, spawned |-> spawned, sent |-> sent,
    events |-> events, trace |-> trace, engineStarts |-> engineStarts,
    pipelineResult |-> pipelineResult, handlerResult |-> handlerResult ]

\* a handler call that has not started
FreshRun(t) ==
  [ trigger |-> t, tfApply |-> FALSE, pc |-> "idle", steps |-> <<>>, idx |-> 0,
    params |-> EmptyParams,
    listener |-> [ text |-> <<>>, fullRender |-> <<>>, stepCount |-> 0, finishedCount |-> 0 ],
    spawned |-> <<>>, sent |-> <<>>, events |-> <<>>, trace |-> <<>>, engineStarts |-> 0,
    pipelineResult |-> None, handlerResult |-> None ]

\* variant: text, fullRender and the counters live at module level
ResumedListener_Shared(run) == listener

\* the closure a resumed run continues with: the one slackUpdate made for it
ResumedListener(run) == run.listener

\* the configurations and triggers of the interleaved runs
PairConfigs ==
  { c \in CoreConfigs :
      /\ c.branch = None /\ c.init = None /\ c.version = None /\ c.base = None
      /\ c.workspace = None /\ c.cmdlineargs = None /\ c.cmdlinevars = None }

PairFirst ==
  { t \in Triggers : t.channels = << "infra" >> /\ t.branch = "master" }

PairSecond ==
  { t \in Triggers : t.kind = "command"
                     \/ (t.branch = "feature-x" /\ t.channels = <<>> /\ t.committer # None) }

PairInit ==
  /\ cfg \in PairConfigs
  /\ trigger \in PairFirst
  /\ tfApply = FALSE
  /\ pc = "idle"
  /\ steps = <<>>
  /\ idx = 0
  /\ params = EmptyParams
  /\ listener = [ text |-> <<>>, fullRender |-> <<>>, stepCount |-> 0, finishedCount |-> 0 ]
  /\ spawned = <<>>
  /\ sent = <<>>
  /\ events = <<>>
  /\ trace = <<>>
  /\ engineStarts = 0
  /\ pipelineResult = None
  /\ handlerResult = None
  /\ builderReg = EmptyParams
  /\ builderCalls = <<>>
  /\ processEnv = ContainerEnv
  /\ \E t \in PairSecond : suspended = Some(FreshRun(t))

\* the running handler call suspends at an await and the other one resumes
Switch ==
  /\ suspended # None
  /\ suspended[1].pc # "done"
  /\ suspended' = Some(RunState)
  /\ trigger' = suspended[1].trigger
  /\ tfApply' = suspended[1].tfApply
  /\ pc' = suspended[1].pc
  /\ steps' = suspended[1].steps
  /\ idx' = suspended[1].idx
  /\ params' = suspended[1].params
  /\ listener' = ResumedListener(suspended[1])
  /\ spawned' = suspended[1].spawned
  /\ sent' = suspended[1].sent
  /\ events' = suspended[1].events
  /\ trace' = suspended[1].trace
  /\ engineStarts' = suspended[1].engineStarts
  /\ pipelineResult' = suspended[1].pipelineResult
  /\ handlerResult' = suspended[1].handlerResult
  /\ UNCHANGED << cfg, builderReg, builderCalls, processEnv >>

PairNext ==
  \/ Next
  \/ Switch

PairSpec == PairInit /\ [][PairNext]_vars


--------------------------------------------------------------------------
(* Properties *)

IsTf(call, sub) == call.cmd = "terraform" /\ call.args[1] = sub

\* the subprocess invocations of `terraform <sub>` so far
TfCalls(sub) == { i \in DOMAIN spawned : IsTf(spawned[i], sub) }

\* the invocations the current step added
NewSpawns == SubSeq(spawned', Len(spawned) + 1, Len(spawned'))

\* the engine is about to handle the step called `name`
AtStep(name) == pc = "running" /\ steps[idx] = name

HasEvent(cb, name) == \E k \in DOMAIN events : events[k].cb = cb /\ events[k].step = name

CompletedWithCode(name, code) ==
  \E k \in DOMAIN events :
    /\ events[k].cb = "completed" /\ events[k].step = name
    /\ events[k].result # None /\ events[k].result[1].code = code

\* C1: in a push-triggered run whose registration has autoApprove false or
\* unset, the `terraform apply` subprocess is never invoked.
C1_NoApplyWithoutAutoApprove ==
  (trigger.kind = "push" /\ ~Truthy(params.autoApprove)) => TfCalls("apply") = {}

\* a push run with autoApprove off that planned changes and skipped apply
C1_Witness ==
  /\ trigger.kind = "push" /\ pc = "done"
  /\ params.autoApprove = Some(FALSE)
  /\ \E i \in TfCalls("plan") : spawned[i].status = 2
  /\ HasEvent("skipped", "Terraform Apply")

\* C2: in a push-triggered run with auto-approve enabled, the step that
\* invokes `terraform apply` starts from a state in which `terraform plan` was
\* invoked and exited with a status other than 1 and Validate returned code 0;
\* after a plan that exited 1 or a failed validate, apply is never invoked.
C2_ApplyAfterPlanAndValidate ==
  /\ [][ (trigger.kind = "push" /\ Truthy(cfg.autoApprove)
          /\ \E i \in DOMAIN NewSpawns : IsTf(NewSpawns[i], "apply"))
         => /\ \E j \in TfCalls("plan") : spawned[j].status # 1
            /\ CompletedWithCode("Validate Terraform", 0) ]_vars
  /\ [] ( (trigger.kind = "push" /\ Truthy(cfg.autoApprove)
           /\ \/ \E j \in TfCalls("plan") : spawned[j].status = 1
              \/ \E j \in TfCalls("validate") : spawned[j].status # 0
              \/ \E c \in {2, 3} : CompletedWithCode("Validate Terraform", c))
          => TfCalls("apply") = {} )

\* a push run with autoApprove on that applied after a plan with changes
C2_Witness ==
  /\ trigger.kind = "push" /\ Truthy(cfg.autoApprove)
  /\ TfCalls("apply") # {}
  /\ \E j \in TfCalls("plan") : spawned[j].status = 2

\* C3: once a step's action returned a result with a nonzero code, nothing
\* more is invoked (that action is the last entry of the trace, its
\* `completed` the last callback) and the pipeline result is that result.
C3_ShortCircuit ==
  \A k \in DOMAIN events :
    (events[k].cb = "completed" /\ events[k].result # None /\ events[k].result[1].code # 0)
    => /\ k = Len(events)
       /\ trace[Len(trace)] = TraceOp("action", events[k].step)
       /\ pc = "done"
       /\ pipelineResult = Some(events[k].result[1])

\* validate returned code 2 in the middle of the list and the run stopped there
C3_Witness ==
  /\ CompletedWithCode("Validate Terraform", 2)
  /\ pc = "done" /\ idx < Len(steps)
  /\ pipelineResult # None /\ pipelineResult[1].code = 2

\* C4: when a step's action raises a fault, `failed` is notified with that
\* fault (and the listener writes it to the transcript), `completed` is not
\* fired for the step, nothing runs afterwards and the run ends nonzero.
C4_FaultStopsRun ==
  \A i \in DOMAIN trace :
    trace[i].op = "fault"
    => /\ i = Len(trace)
       /\ events[Len(events)].cb = "failed"
       /\ events[Len(events)].step = trace[i].step
       /\ events[Len(events)].error # None
       /\ listener.text[Len(listener.text)]
            = "Failed: " \o trace[i].step \o ": " \o events[Len(events)].error[1]
       /\ ~HasEvent("completed", trace[i].step)
       /\ pc = "done"
       /\ handlerResult # None /\ handlerResult[1].code # 0

\* the clone faulted in Load Project, after Set Parameters had completed
C4_Witness ==
  /\ trace # <<>> /\ trace[Len(trace)] = TraceOp("fault", "Load Project")
  /\ HasEvent("failed", "Load Project")
  /\ HasEvent("completed", "Set Parameters")

\* C5: a step whose run-predicate is false has no action invoked and no
\* `starting` fired; `skipped` fires exactly once for it and finishedCount
\* grows by exactly one.
C5_SkipSemantics ==
  [][ \A name \in { steps[i] : i \in DOMAIN steps } :
        (AtStep(name) /\ ~RunWhen(name, Context, params))
        => /\ trace' = Append(trace, TraceOp("predicate", name))
           /\ events' = Append(events, Event("skipped", name, None, None))
           /\ listener'.finishedCount = listener.finishedCount + 1
           /\ spawned' = spawned ]_vars

\* init and workspace select were both skipped in a run that went on to plan
C5_Witness ==
  /\ HasEvent("skipped", "Initialize Terraform")
  /\ HasEvent("skipped", "Select Terraform Workspace")
  /\ ~HasEvent("starting", "Initialize Terraform")
  /\ TfCalls("plan") # {}

\* the step called `name` was skipped or completed without a nonzero code
StepPassed(name) ==
  \E k \in DOMAIN events :
    /\ events[k].step = name
    /\ \/ events[k].cb = "skipped"
       \/ events[k].cb = "completed" /\ (events[k].result = None \/ events[k].result[1].code = 0)

C7_BranchFilter ==
  (trigger.kind = "push" /\ pc # "idle")
  => IF cfg.branch # None /\ cfg.branch[1] # trigger.branch
     THEN /\ pc = "done"
          /\ handlerResult = Some([ code |-> 0,
               reason |-> Some("Incoming branch [" \o trigger.branch
                               \o "] does not match configured branch ["
                               \o cfg.branch[1] \o "], skipping.") ])
          /\ engineStarts = 0
          /\ trace = <<>> /\ events = <<>> /\ spawned = <<>> /\ sent = <<>>
     ELSE engineStarts = 1

\* a push to feature-x with restrict-branch master was skipped
C7_Witness ==
  /\ trigger.kind = "push" /\ trigger.branch = "feature-x" /\ cfg.branch = Some("master")
  /\ pc = "done" /\ engineStarts = 0 /\ handlerResult # None

C9_WorkspaceGating ==
  /\ [][ AtStep("Select Terraform Workspace")
         => IF params.workspace = None \/ params.workspace = Some("")
            THEN /\ spawned' = spawned
                 /\ events' = Append(events, Event("skipped", "Select Terraform Workspace", None, None))
            ELSE /\ Len(NewSpawns) = 1
                 /\ NewSpawns[1].cmd = "terraform"
                 /\ NewSpawns[1].args = << "workspace", "select", params.workspace[1] >> ]_vars
  /\ [][ ~AtStep("Select Terraform Workspace")
         => \A i \in DOMAIN NewSpawns : ~IsTf(NewSpawns[i], "workspace") ]_vars

\* workspace "test" was selected
C9_Witness ==
  /\ params.workspace = Some("test")
  /\ \E i \in TfCalls("workspace") : spawned[i].args = << "workspace", "select", "test" >>

\* C10: SetTerraformVersion is skipped (no subprocess) when no version is set;
\* when one is set it calls `tfenv use <version>` and, only if that exits
\* nonzero, `tfenv install <version>` once as the second call; it then returns
\* code 0 if install exited 0 and code 1 with the installer's error text
\* otherwise; it never makes more than two calls.
C10_VersionFallback ==
  [][ AtStep("Set Terraform Version")
      => IF params.version = None \/ params.version = Some("")
         THEN spawned' = spawned /\ ~HasEvent("starting", "Set Terraform Version")'
         ELSE /\ Len(NewSpawns) \in {1, 2}
              /\ NewSpawns[1].cmd = "tfenv"
              /\ NewSpawns[1].args = << "use", params.version[1] >>
              /\ (NewSpawns[1].status = 0) <=> (Len(NewSpawns) = 1)
              /\ Len(NewSpawns) = 2
                 => /\ NewSpawns[2].cmd = "tfenv"
                    /\ NewSpawns[2].args = << "install", params.version[1] >>
                    /\ events'[Len(events')].cb = "completed"
                    /\ events'[Len(events')].result # None
                    /\ IF NewSpawns[2].status = 0
                       THEN events'[Len(events')].result[1].code = 0
                       ELSE /\ events'[Len(events')].result
                                 = Result(1, Some("tfenv install: stderr"))
                            /\ pc' = "done" ]_vars

\* `use` failed, `install 12.1.1` succeeded, the step completed with code 0
C10_Witness ==
  /\ Len(spawned) >= 2
  /\ spawned[1].args = << "use", "12.1.1" >> /\ spawned[1].status # 0
  /\ spawned[2].args = << "install", "12.1.1" >> /\ spawned[2].status = 0
  /\ CompletedWithCode("Set Terraform Version", 0)

\* C11: when a version is configured and `tfenv use` exits 0, the step does
\* not call install, returns a result with code 0, the listener records the
\* step as completed, and the pipeline moves on to the next step.
C11_UseSucceeds ==
  [][ (AtStep("Set Terraform Version") /\ TruthyStr(params.version)
       /\ Len(NewSpawns) >= 1 /\ NewSpawns[1].status = 0)
      => /\ Len(NewSpawns) = 1
         /\ events'[Len(events')].cb = "completed"
         /\ events'[Len(events')].result # None
         /\ events'[Len(events')].result[1].code = 0
         /\ listener'.text[Len(listener'.text)] = "Completed: Set Terraform Version"
         /\ pc' = "running" /\ idx' = idx + 1 ]_vars

\* the user's CLI arguments as the configuration gives them, rendered
ConfiguredArgs ==
  IF cfg.cmdlineargs = None THEN <<>>
  ELSE [ i \in 1..Len(cfg.cmdlineargs[1]) |->
           "-" \o cfg.cmdlineargs[1][i][1]
               \o (IF Len(cfg.cmdlineargs[1][i]) >= 2 THEN "=" \o cfg.cmdlineargs[1][i][2] ELSE "") ]

Range(seq) == { seq[i] : i \in DOMAIN seq }

\* C12: the plan step invokes terraform with exactly "plan", "-input=false",
\* the user's arguments in input order, "-detailed-exitcode" and the var
\* arguments; the apply step, when it runs, with exactly "apply",
\* "-auto-approve", "-input=false", the user's arguments and the var
\* arguments; with user argument no-color and var foo=bar these are the two
\* vectors the tests assert.
C12_ArgVectors ==
  /\ [][ AtStep("Terraform Plan")
         => /\ Len(NewSpawns) = 1
            /\ NewSpawns[1].cmd = "terraform"
            /\ NewSpawns[1].args = << "plan", "-input=false" >> \o ConfiguredArgs
                                     \o << "-detailed-exitcode" >> \o buildTfVars(params) ]_vars
  /\ [][ (AtStep("Terraform Apply") /\ spawned' # spawned)
         => /\ Len(NewSpawns) = 1
            /\ NewSpawns[1].cmd = "terraform"
            /\ NewSpawns[1].args = << "apply", "-auto-approve", "-input=false" >> \o ConfiguredArgs
                                     \o buildTfVars(params) ]_vars
  /\ [] ( (cfg.cmdlineargs = Some(<< <<"no-color">> >>) /\ cfg.cmdlinevars = Some(<< <<"foo", "bar">> >>))
          => \A i \in DOMAIN spawned :
               /\ IsTf(spawned[i], "plan")
                  => spawned[i].args = << "plan", "-input=false", "-no-color",
                                          "-detailed-exitcode", "-var", "foo=bar" >>
               /\ IsTf(spawned[i], "apply")
                  => spawned[i].args = << "apply", "-auto-approve", "-input=false",
                                          "-no-color", "-var", "foo=bar" >> )

\* plan and apply both ran with two user arguments and one var
C12_Witness ==
  /\ \E i \in TfCalls("plan") :
       spawned[i].args = << "plan", "-input=false", "-no-color", "-parallelism=2",
                            "-detailed-exitcode", "-var", "foo=bar" >>
  /\ \E i \in TfCalls("apply") :
       spawned[i].args = << "apply", "-auto-approve", "-input=false", "-no-color",
                            "-parallelism=2", "-var", "foo=bar" >>

\* C13 as stated: every plan invocation carries -input=false, -no-color and
\* -detailed-exitcode and every apply invocation carries -auto-approve,
\* -input=false and -no-color, whatever the user's arguments are.
C13_AlwaysNoColor ==
  \A i \in DOMAIN spawned :
    /\ IsTf(spawned[i], "plan")
       => {"-input=false", "-no-color", "-detailed-exitcode"} \subseteq Range(spawned[i].args)
    /\ IsTf(spawned[i], "apply")
       => {"-auto-approve", "-input=false", "-no-color"} \subseteq Range(spawned[i].args)

\* C13 amended: every plan invocation carries -input=false and
\* -detailed-exitcode, every apply invocation carries -auto-approve and
\* -input=false; either carries -no-color exactly when the user's CLI
\* arguments include no-color.
C13_FixedFlags ==
  \A i \in DOMAIN spawned :
    /\ IsTf(spawned[i], "plan")
       => {"-input=false", "-detailed-exitcode"} \subseteq Range(spawned[i].args)
    /\ IsTf(spawned[i], "apply")
       => {"-auto-approve", "-input=false"} \subseteq Range(spawned[i].args)
    /\ (IsTf(spawned[i], "plan") \/ IsTf(spawned[i], "apply"))
       => ("-no-color" \in Range(spawned[i].args) <=> "-no-color" \in Range(ConfiguredArgs))

\* plan and apply ran for a configuration without CLI arguments
C13_Witness ==
  /\ cfg.cmdlineargs = None
  /\ \E i \in TfCalls("plan") : "-no-color" \notin Range(spawned[i].args)
  /\ \E i \in TfCalls("apply") : "-no-color" \notin Range(spawned[i].args)

\* the calls of one builder among the recorded ones
CallsOf(fn) == { i \in DOMAIN builderCalls : builderCalls[i].fn = fn }

\* the flags buildTfArgs fixes for an action
FixedFlags(action) ==
  CASE action = "apply" -> << "-auto-approve", "-input=false" >>
    [] action = "destroy" -> << "-force", "-input=false" >>
    [] OTHER -> << "-input=false" >>

\* C14: buildTfArgs("apply", r) begins with -auto-approve, -input=false,
\* buildTfArgs("destroy", r) with -force, -input=false, buildTfArgs("plan", r)
\* with -input=false, and the remainder is exactly the user's CLI arguments in
\* input order, each rendered -<flag> when it has no value (absent or empty)
\* and -<flag>=<value> otherwise.
C14_BuildTfArgs ==
  \A i \in CallsOf("buildTfArgs") :
    LET c == builderCalls[i]
        fixed == FixedFlags(c.action)
        user == IF c.given.args = None THEN <<>> ELSE c.given.args[1]
    IN /\ Len(c.out) = Len(fixed) + Len(user)
       /\ SubSeq(c.out, 1, Len(fixed)) = fixed
       /\ \A k \in DOMAIN user :
            c.out[Len(fixed) + k] =
              IF user[k].value \in {None, Some("")}
              THEN "-" \o user[k].arg
              ELSE "-" \o user[k].arg \o "=" \o user[k].value[1]

\* destroy was built for two different arguments, one with a value, one without
C14_Witness ==
  \E i \in CallsOf("buildTfArgs") :
    /\ builderCalls[i].action = "destroy"
    /\ builderCalls[i].given.args =
         Some(<< [ arg |-> "lock", value |-> Some("false") ], [ arg |-> "no-color", value |-> None ] >>)
    /\ builderCalls[i].out = << "-force", "-input=false", "-lock=false", "-no-color" >>

\* C15: for a registration with n vars and m var-files buildTfVars returns
\* exactly 2n+m strings: for each var in input order the pair "-var",
\* "<name>=<value>", then for each var-file in input order
\* "-var-file=<path>"; absent vars or var-files contribute nothing.
C15_BuildTfVars ==
  \A i \in CallsOf("buildTfVars") :
    LET c == builderCalls[i]
        vs == IF c.given.vars = None THEN <<>> ELSE c.given.vars[1]
        fs == IF c.given.varsFiles = None THEN <<>> ELSE c.given.varsFiles[1]
        n == Len(vs)
        m == Len(fs)
    IN /\ Len(c.out) = 2 * n + m
       /\ \A k \in 1..n : /\ c.out[2 * k - 1] = "-var"
                          /\ c.out[2 * k] = vs[k].tfVar \o "=" \o vs[k].value[1]
       /\ \A k \in 1..m : c.out[2 * n + k] = "-var-file=" \o fs[k]

\* two different vars and two different var-files were rendered
C15_Witness ==
  \E i \in CallsOf("buildTfVars") :
    /\ builderCalls[i].given.vars /= None
    /\ builderCalls[i].given.varsFiles = Some(<< "b.tfvars", "a.tfvars" >>)
    /\ builderCalls[i].out = << "-var", "region=", "-var", "foo=bar",
                                "-var-file=b.tfvars", "-var-file=a.tfvars" >>

EndsCompleted(code) ==
  /\ events'[Len(events')].cb = "completed"
  /\ events'[Len(events')].result # None
  /\ events'[Len(events')].result[1].code = code

\* C17: a plan that exits 1 is a hard failure (nonzero step code, the
\* pipeline stops, no plan message is sent, apply is not reached); a plan that
\* exits 0 or 2 makes the step return code 0 and the pipeline continues with
\* the apply step's predicate.
C17_PlanExit ==
  [][ (AtStep("Terraform Plan") /\ Len(NewSpawns) = 1)
      => /\ NewSpawns[1].status = 1
            => /\ \E c \in Statuses \ {0} : EndsCompleted(c)
               /\ pc' = "done"
               /\ pipelineResult'[1].code # 0
               /\ sent' = sent \/ sent'[Len(sent')].kind # "plan"
               /\ TfCalls("apply") = {}
         /\ NewSpawns[1].status \in {0, 2}
            => /\ EndsCompleted(0)
               /\ pc' = "running"
               /\ steps[idx'] = "Terraform Apply" ]_vars

\* the outcomes of the plan step, from the current state, in which terraform
\* exited with `status` and the step returned a result
PlanOutcomes(status) ==
  { o \in RunTerraformPlanRun(updateRepo(ListenerRepo, params)) :
      o.fault = None /\ o.spawns[1].status = status }

\* what the apply step's predicate reads of the state an outcome leaves
ApplyPredicateReads(o) == << o.params.autoApprove, tfApply >>

\* C18 as stated: after a successful plan step the state the apply step's
\* predicate reads tells a plan that found changes (exit 2) from one that
\* found none (exit 0).
C18_ChangesRecorded ==
  AtStep("Terraform Plan")
  => \A o0 \in PlanOutcomes(0), o2 \in PlanOutcomes(2) :
       ApplyPredicateReads(o0) # ApplyPredicateReads(o2)

\* C18 amended: a successful plan step records nothing about its outcome: it
\* leaves the registration and the context as they were, whether terraform
\* exited 0 or 2, so the apply step's predicate decides on auto-approve and
\* the explicit apply trigger alone, and with auto-approve on apply is
\* invoked after a plan without changes as well.
C18_NothingRecorded ==
  /\ [][ (AtStep("Terraform Plan") /\ EndsCompleted(0))
         => /\ params' = params
            /\ tfApply' = tfApply
            /\ PlanOutcomes(0) # {} /\ PlanOutcomes(2) # {}
            /\ \A o0 \in PlanOutcomes(0), o2 \in PlanOutcomes(2) : o0.params = o2.params ]_vars
  /\ [][ AtStep("Terraform Apply")
         => (spawned' # spawned <=> (Truthy(params.autoApprove) \/ tfApply)) ]_vars

\* apply was invoked in a push-triggered run after a plan that found no changes
C18_Witness ==
  /\ trigger.kind = "push"
  /\ \E i \in TfCalls("plan") : spawned[i].status = 0
  /\ TfCalls("apply") # {}

\* the chat messages the current step added
NewSent == SubSeq(sent', Len(sent) + 1, Len(sent'))

\* the messages with the "Run Apply" control among them
NewButtons == { k \in DOMAIN NewSent : NewSent[k].button # None }

\* a delivered control belongs to the message apply-<correlationId> and
\* carries the serialized state
ButtonsWellFormed ==
  \A k \in NewButtons :
    /\ NewSent[k].id = "apply-" \o CorrelationId
    /\ NewSent[k].button[1].command = "runApply"
    /\ NewSent[k].button[1].data.msgId = NewSent[k].id
    /\ NewSent[k].button[1].data.commitUrl = PushRepo.url
    /\ NewSent[k].button[1].data.project.id.sha = PushRepo.sha

\* C19 as stated: the plan step sends a message with the "Run Apply" control
\* if and only if terraform plan exited 2 and auto-approve is off; when
\* delivered it carries the serialized state and has id apply-<correlationId>.
C19_ButtonIffChanges ==
  [][ (AtStep("Terraform Plan") /\ Len(NewSpawns) = 1)
      => /\ NewButtons # {} <=> (NewSpawns[1].status = 2 /\ ~Truthy(params.autoApprove))
         /\ ButtonsWellFormed ]_vars

\* C19 amended: the plan step sends a message with the "Run Apply" control if
\* and only if terraform plan exited 2, auto-approve is off and a notification
\* target resolves (a linked channel, else the committer's chat identity); no
\* other step sends the control; when delivered it carries the serialized
\* state and has id apply-<correlationId>.
C19_ButtonIffChangesAndTarget ==
  /\ [][ (AtStep("Terraform Plan") /\ Len(NewSpawns) = 1)
         => /\ NewButtons # {} <=> /\ NewSpawns[1].status = 2
                                   /\ ~Truthy(params.autoApprove)
                                   /\ NotifyTarget # None
            /\ Cardinality(NewButtons) <= 1
            /\ ButtonsWellFormed ]_vars
  /\ [][ ~AtStep("Terraform Plan") => NewButtons = {} ]_vars

\* the control was delivered to the committer
C19_Witness ==
  \E k \in DOMAIN sent :
    /\ sent[k].button # None
    /\ sent[k].to.type = "person"
    /\ \E i \in TfCalls("plan") : spawned[i].status = 2

\* the plan messages the current step sent, carrying the transcript
NewPlanMessages ==
  { k \in DOMAIN NewSent :
      NewSent[k].kind = "plan" /\ NewSent[k].text = << "*Plan Output* plan output" >> }

\* C20 as stated: whenever terraform plan exits 0 or 2 the plan step sends a
\* chat message with the plan transcript, auto-approve on or off.
C20_PlanMessageAlways ==
  [][ (AtStep("Terraform Plan") /\ Len(NewSpawns) = 1 /\ NewSpawns[1].status \in {0, 2})
      => NewPlanMessages # {} ]_vars

\* C20 amended: whenever terraform plan exits 0 or 2 the plan step sends a
\* chat message with the plan transcript if and only if auto-approve is off
\* and a notification target resolves; with auto-approve on, or after exit 1,
\* the step sends none.
C20_PlanMessageUnlessAutoApprove ==
  [][ (AtStep("Terraform Plan") /\ Len(NewSpawns) = 1)
      => /\ NewSpawns[1].status \in {0, 2}
            => (NewPlanMessages # {} <=> (~Truthy(params.autoApprove) /\ NotifyTarget # None))
         /\ (NewSpawns[1].status = 1 \/ Truthy(params.autoApprove))
            => NewPlanMessages = {} ]_vars

\* a plan without changes was reported to a linked channel, auto-approve off
C20_Witness ==
  /\ ~Truthy(params.autoApprove)
  /\ \E i \in TfCalls("plan") : spawned[i].status = 0
  /\ \E k \in DOMAIN sent :
       /\ sent[k].kind = "plan" /\ sent[k].button = None
       /\ sent[k].to.type = "channel"
       /\ sent[k].text = << "*Plan Output* plan output" >>

\* C21: the validate step returns code 2 when `terraform validate` exits
\* nonzero, whatever the scanned directory holds, code 3 when validate passes
\* and no scanned *.tf file has a backend block, and code 0 when validate
\* passes and one has; after code 2 or 3 the pipeline stops, so plan and
\* apply are only ever invoked after the scan found a backend block.
C21_ValidateClassification ==
  /\ [][ AtStep("Validate Terraform")
         => /\ Len(NewSpawns) = 1
            /\ NewSpawns[1].args = << "validate" >>
            /\ NewSpawns[1].status # 0
               => (EndsCompleted(2) /\ pc' = "done" /\ pipelineResult'[1].code = 2)
            /\ (NewSpawns[1].status = 0 /\ ~(BaseDir(params) = "backend"))
               => (EndsCompleted(3) /\ pc' = "done" /\ pipelineResult'[1].code = 3)
            /\ (NewSpawns[1].status = 0 /\ BaseDir(params) = "backend")
               => (EndsCompleted(0) /\ pc' = "running") ]_vars
  /\ [] ( (TfCalls("plan") \cup TfCalls("apply")) # {}
          => /\ CompletedWithCode("Validate Terraform", 0)
             /\ BaseDir(params) = "backend" )

\* validate passed on a directory without backend block and the run stopped
\* with code 3
C21_Witness ==
  /\ pc = "done"
  /\ CompletedWithCode("Validate Terraform", 3)
  /\ \E i \in DOMAIN spawned : spawned[i].args = << "validate" >> /\ spawned[i].status = 0
  /\ BaseDir(params) = "tf"
  /\ TfCalls("plan") = {}

\* what the project root of the clone the registration carries holds
RootDir(p) == p.project[1].fs[""]

\* C22: with no base path configured, LoadProject checks the project root
\* (code 0 exactly when the root holds a *.tf file, code 1 otherwise) and the
\* validate step scans the *.tf files of the project root.
C22_BaseDefaultsToRoot ==
  /\ [][ (AtStep("Load Project") /\ params.baseLocation = None
          /\ events'[Len(events')].cb = "completed")
         => /\ RootDir(params') \in {"tf", "backend"} => EndsCompleted(0)
            /\ RootDir(params') \in {"missing", "notf"} => EndsCompleted(1) ]_vars
  /\ [][ (AtStep("Validate Terraform") /\ params.baseLocation = None
          /\ Len(NewSpawns) = 1 /\ NewSpawns[1].status = 0)
         => /\ RootDir(params) = "backend" => EndsCompleted(0)
            /\ RootDir(params) # "backend" => EndsCompleted(3) ]_vars

\* the progress messages sent so far
ProgressMessages == { k \in DOMAIN sent : sent[k].kind = "progress" }

\* C23: every progress message goes to the linked chat channels when there
\* is one, otherwise to the commit author's chat identity when the lookup
\* resolves one; otherwise nothing is sent and the run is unaffected: no step
\* faults for want of somebody to notify.
C23_NotificationTarget ==
  /\ \A k \in ProgressMessages :
       IF Len(trigger.channels) > 0
       THEN sent[k].to = [ type |-> "channel", value |-> trigger.channels[1] ]
       ELSE /\ trigger.committer # None
            /\ sent[k].to = [ type |-> "person", value |-> trigger.committer[1] ]
  /\ (Len(trigger.channels) = 0 /\ trigger.committer = None)
     => /\ sent = <<>>
        /\ \A k \in DOMAIN events :
             ~(events[k].cb = "failed" /\ events[k].error = Some("committer lookup failed"))

\* the environment a terraform subprocess must see
ExpectedEnv ==
  LET own == params.envVars[1]
  IN  [ k \in (DOMAIN processEnv) \cup (DOMAIN own) |->
          IF k \in DOMAIN own THEN own[k] ELSE processEnv[k] ]

\* C27: every terraform subprocess (init, validate, workspace select, plan,
\* apply) runs in <project root>/<baseLocation> when a base location is set
\* and in <project root> otherwise, with the process environment overlaid by
\* registration.envVars, the registration winning on every collision.
C27_CwdAndEnv ==
  \A i \in DOMAIN spawned :
    spawned[i].cmd = "terraform"
    => /\ spawned[i].args[1] \in {"init", "validate", "workspace", "plan", "apply"}
       /\ spawned[i].cwd = Some(IF cfg.base # None THEN "/clone/" \o cfg.base[1] ELSE "/clone")
       /\ spawned[i].env = ExpectedEnv
       /\ \A k \in DOMAIN params.envVars[1] : spawned[i].env[k] = params.envVars[1][k]

\* plan ran in the base location with HOME taken from the registration and
\* not from the process
C27_Witness ==
  \E i \in TfCalls("plan") :
    /\ spawned[i].cwd = Some("/clone/tf")
    /\ processEnv["HOME"] = "/tmp"
    /\ spawned[i].env["HOME"] = "/work"
    /\ spawned[i].env["TF_IN_AUTOMATION"] = "1"
    /\ TfCalls("init") # {} /\ TfCalls("validate") # {}

\* C28: after SetParameters registration.envVars.GOOGLE_CREDENTIALS is the
\* resolved secret, whatever the user configured under that name; every
\* terraform invocation gets it in its environment; the skill's own process
\* environment never holds it.
C28_CredentialConfinement ==
  /\ CompletedWithCode("Set Parameters", 0)
     => params.envVars[1]["GOOGLE_CREDENTIALS"] = "gcp-secret"
  /\ \A i \in DOMAIN spawned :
       spawned[i].cmd = "terraform" => spawned[i].env["GOOGLE_CREDENTIALS"] = "gcp-secret"
  /\ "GOOGLE_CREDENTIALS" \notin DOMAIN processEnv

\* apply ran with the secret although the user configured GOOGLE_CREDENTIALS
C28_Witness ==
  /\ cfg.envvars = Some(<< <<"HOME", "/work">>, <<"GOOGLE_CREDENTIALS", "mine">> >>)
  /\ \E i \in TfCalls("apply") : spawned[i].env["GOOGLE_CREDENTIALS"] = "gcp-secret"

\* a configuration array with an entry that does not hold exactly one "="
HasMalformed(o) == o # None /\ \E i \in DOMAIN o[1] : Len(o[1][i]) # 2

\* the current step faulted and the run ended there, before any repository
\* load or subprocess
AbortsAtFirstStep ==
  /\ events'[Len(events')].cb = "failed"
  /\ events'[Len(events')].error \in
       { Some("Could not process supplied Terraform var"), Some("Could not process argument!") }
  /\ pc' = "done"
  /\ pipelineResult'[1].code # 0
  /\ params'.project = None
  /\ spawned' = <<>>

\* C29 as stated: an entry without exactly one "=" in the env-var, the
\* CLI-var or the CLI-arg array makes SetParameters fault, and the run ends
\* there.
C29_MalformedFaults ==
  [][ (AtStep("Set Parameters")
       /\ (HasMalformed(cfg.envvars) \/ HasMalformed(cfg.cmdlinevars) \/ HasMalformed(cfg.cmdlineargs)))
      => AbortsAtFirstStep ]_vars

\* C29 amended: an entry without exactly one "=" in the env-var or the
\* CLI-var array makes SetParameters fault, and the run ends there; a CLI-arg
\* entry never does: without "=" it is a bare flag, and of an entry with more
\* than one "=" the flag and the text up to the second "=" are kept.
C29_MalformedVarsFault ==
  [][ AtStep("Set Parameters")
      => /\ (HasMalformed(cfg.envvars) \/ HasMalformed(cfg.cmdlinevars)) => AbortsAtFirstStep
         /\ ~(HasMalformed(cfg.envvars) \/ HasMalformed(cfg.cmdlinevars))
            => /\ events'[Len(events')].cb = "failed"
                  => events'[Len(events')].error = Some("credential query failed")
               /\ cfg.cmdlineargs # None
                  => /\ Len(params'.args[1]) = Len(cfg.cmdlineargs[1])
                     /\ \A i \in DOMAIN cfg.cmdlineargs[1] :
                          /\ params'.args[1][i].arg = cfg.cmdlineargs[1][i][1]
                          /\ params'.args[1][i].value =
                               IF Len(cfg.cmdlineargs[1][i]) = 1 THEN None
                               ELSE Some(cfg.cmdlineargs[1][i][2]) ]_vars

\* the run ended at SetParameters on the var "foo=a=b"
C29_Witness ==
  /\ cfg.cmdlinevars = Some(<< <<"foo", "a", "b">> >>)
  /\ pc = "done"
  /\ HasEvent("failed", "Set Parameters")
  /\ spawned = <<>>

\* C30: every configured var-file path is in the registration's var-file
\* list after SetParameters and appears as -var-file=<path> in every init,
\* plan and apply invocation of the run.
C30_VarFilesReachTerraform ==
  (cfg.varfiles # None /\ CompletedWithCode("Set Parameters", 0))
  => /\ params.varsFiles = cfg.varfiles
     /\ \A i \in TfCalls("init") \cup TfCalls("plan") \cup TfCalls("apply") :
          \A k \in DOMAIN cfg.varfiles[1] :
            ("-var-file=" \o cfg.varfiles[1][k]) \in Range(spawned[i].args)

\* C25: at the end of every pipeline run with a resolvable notification
\* target the last message sent is a progress message whose badge state is
\* success, failure or skipped (never in_process) and whose transcript holds
\* every line appended during the run; a run that stopped on a failing or
\* faulting step ends in state failure.
C25_TerminalState ==
  (pc = "done" /\ engineStarts > 0 /\ NotifyTarget # None)
  => /\ sent # <<>>
     /\ sent[Len(sent)].kind = "progress"
     /\ sent[Len(sent)].state \in {"success", "failure", "skipped"}
     /\ sent[Len(sent)].text = listener.text
     /\ pipelineResult[1].code # 0 => sent[Len(sent)].state = "failure"

\* a run stopped on its fifth step, with three steps to go, in state failure
C25_Witness ==
  /\ pc = "done"
  /\ NotifyTarget # None
  /\ pipelineResult # None /\ sent # <<>>
  /\ pipelineResult[1].code = 3
  /\ sent[Len(sent)].state = "failure"
  /\ sent[Len(sent)].step = 5 /\ sent[Len(sent)].steps = 8
  /\ sent[Len(sent)].text = listener.text
  /\ Len(listener.text) >= 8

\* C26: all the messages the progress listener sends in one run carry the
\* same message id.
C26_SingleProgressMessage ==
  \A i, j \in ProgressMessages : sent[i].id = sent[j].id

\* a run went through all its steps, and every callback kind re-sent the
\* one progress message
C26_Witness ==
  /\ pc = "done"
  /\ Cardinality(ProgressMessages) >= 2 * Len(steps) - 2
  /\ \E k \in ProgressMessages : sent[k].state = "skipped"
  /\ \E k \in DOMAIN sent : sent[k].kind = "plan"

\* the current step is a `completed` callback that was handed a result
CompletedWith(hidden) ==
  /\ Len(events') = Len(events) + 1
  /\ events'[Len(events')].cb = "completed"
  /\ events'[Len(events')].result # None
  /\ (events'[Len(events')].result[1].visibility = Some("hidden")) = hidden

\* nothing is sent and nothing is appended to the transcript or the full render
Silent == sent' = sent /\ listener'.text = listener.text /\ listener'.fullRender = listener.fullRender

\* C24 as stated: a completed result with visibility "hidden" sends no
\* message and appends nothing to the transcript or the full render; any
\* other completed result sends exactly one message.
C24_HiddenOrOne ==
  [][ /\ CompletedWith(TRUE) => Silent
      /\ CompletedWith(FALSE) => Len(sent') = Len(sent) + 1 ]_vars

\* C24 amended: a completed result with visibility "hidden" sends no message
\* and appends nothing to the transcript or the full render; any other
\* completed result appends its line and sends exactly one message when a
\* notification target resolves, and none when there is nobody to notify.
C24_HiddenOrOneIfTarget ==
  [][ /\ CompletedWith(TRUE) => Silent
      /\ CompletedWith(FALSE)
         => /\ Len(listener'.text) = Len(listener.text) + 1
            /\ Len(sent') = Len(sent) + (IF NotifyTarget # None THEN 1 ELSE 0) ]_vars

\* two results were completed, a hidden one and then a visible one, and one
\* message went out
C24_Witness ==
  /\ Len(events) = 2
  /\ events[1].cb = "completed" /\ events[1].result # None
  /\ events[1].result[1].visibility = Some("hidden")
  /\ events[2].cb = "completed" /\ events[2].result # None
  /\ events[2].result[1].visibility = None
  /\ Len(sent) = 1
  /\ listener.finishedCount >= 2

--------------------------------------------------------------------------
(* Ordering of predicates, actions and subprocess invocations within a run *)

\* the place of a subprocess invocation in the order the step list gives:
\* version manager, init, validate, workspace select, plan, apply
SpawnRank(call) ==
  CASE call.cmd = "tfenv" -> 1
    [] IsTf(call, "init") -> 2
    [] IsTf(call, "validate") -> 3
    [] IsTf(call, "workspace") -> 4
    [] IsTf(call, "plan") -> 5
    [] IsTf(call, "apply") -> 6
    [] OTHER -> 0

\* the position in the step list of the step called `name`
StepIndex(name) == CHOOSE k \in DOMAIN steps : steps[k] = name

\* C31: execution is strictly sequential. The engine's record of predicate
\* evaluations, action invocations and faults walks the step list from the
\* front without ever going back; a step's predicate is recorded before its
\* action; after each transition the record ends at the step the listener
\* callbacks last reported, so no later step was touched before they
\* finished; and the subprocess invocations occur in the order version
\* manager, init, validate, workspace select, plan, apply, so init always
\* precedes plan.
C31_Sequential ==
  /\ \A i, j \in DOMAIN trace :
       i < j => /\ StepIndex(trace[i].step) <= StepIndex(trace[j].step)
                /\ (trace[i].step = trace[j].step /\ trace[j].op = "predicate") => FALSE
  /\ trace # <<>> => /\ events # <<>>
                     /\ trace[Len(trace)].step = events[Len(events)].step
                     /\ events[Len(events)].cb \in { "skipped", "completed", "failed" }
  /\ \A i, j \in DOMAIN spawned :
       i < j => /\ SpawnRank(spawned[i]) <= SpawnRank(spawned[j])
                /\ SpawnRank(spawned[i]) = SpawnRank(spawned[j]) => spawned[i].cmd = "tfenv"
  /\ \A i \in TfCalls("plan") : \A j \in TfCalls("init") : j < i

\* a push-triggered run that went through the version manager, init,
\* validate, workspace select, plan and apply, in this order
C31_Witness ==
  /\ trigger.kind = "push"
  /\ pc = "done"
  /\ Len(spawned) = 6
  /\ [ k \in 1..6 |-> SpawnRank(spawned[k]) ] = << 1, 2, 3, 4, 5, 6 >>
  /\ Len(trace) >= 8

--------------------------------------------------------------------------
(* Two interleaved runs *)

\* the closure state the callbacks of `evs`, fired in order on a closure
\* that starts as `l`, leave behind
RECURSIVE ReplayListener(_, _)
ReplayListener(evs, l) ==
  IF evs = <<>> THEN l
  ELSE LET e == Head(evs)
           l1 == CASE e.cb = "starting" -> ListenerStarting(l, e.step, EmptyParams).listener
                   [] e.cb = "skipped" -> ListenerSkipped(l, e.step, EmptyParams).listener
                   [] e.cb = "failed" -> ListenerFailed(l, e.step, EmptyParams, e.error[1]).listener
                   [] OTHER -> ListenerCompleted(l, e.step, EmptyParams, e.result).listener
       IN  ReplayListener(Tail(evs), l1)

\* the runs of the process: the running one and the parked one
Runs == { RunState } \cup (IF suspended # None THEN { suspended[1] } ELSE {})

\* the run's transcript, full render and counter are what its own callbacks
\* produce, and its registration names its own push
EvolvesAlone(run) ==
  /\ run.listener = ReplayListener(run.events,
                       [ text |-> <<>>, fullRender |-> <<>>,
                         stepCount |-> Len(run.steps), finishedCount |-> 0 ])
  /\ (run.params.project # None /\ run.events # <<>>
      /\ run.events[Len(run.events)].step # "Set Parameters")
     => run.params.project[1].id.branch
          = (IF run.trigger.kind = "push" THEN Some(run.trigger.branch) ELSE None)

\* process.env as a run executing alone leaves it: only a push handler sets HOME
SoloProcessEnv(run) ==
  IF run.trigger.kind = "push" THEN [ ContainerEnv EXCEPT !["HOME"] = "/tmp" ] ELSE ContainerEnv

\* every subprocess of the run got the process environment the run alone
\* would have given it
ReadsOwnWrites(run) ==
  \A i \in DOMAIN run.spawned :
    \A k \in DOMAIN SoloProcessEnv(run) :
      (run.params.envVars = None \/ k \notin DOMAIN run.params.envVars[1])
      => run.spawned[i].env[k] = SoloProcessEnv(run)[k]

\* the transcript, full render, counter and registration part of C32 alone
C32_PrivateStateIsolated == \A run \in Runs : EvolvesAlone(run)

\* C32: when two runs are interleaved at step boundaries, each run's
\* registration, transcript, full render and finished-step counter evolve
\* exactly as if the run executed alone, and no state written by one run is
\* read by the other.
C32_RunIsolation == \A run \in Runs : EvolvesAlone(run) /\ ReadsOwnWrites(run)

--------------------------------------------------------------------------
(* No retries *)

\* the invocations of the version manager with subcommand `sub`
TfenvCalls(sub) == { i \in DOMAIN spawned : spawned[i].cmd = "tfenv" /\ spawned[i].args[1] = sub }

\* C33: nothing is retried. In every run each step's action is invoked at
\* most once; terraform init, validate, workspace select, plan and apply are
\* each invoked at most once; a step that failed or faulted is the last thing
\* the run did; and the only second subprocess of one step is the version
\* manager's install, which directly follows the one failing use.
C33_NoRetries ==
  /\ \A name \in Range(steps) :
       Cardinality({ i \in DOMAIN trace : trace[i] = TraceOp("action", name) }) <= 1
  /\ \A sub \in { "init", "validate", "workspace", "plan", "apply" } :
       Cardinality(TfCalls(sub)) <= 1
  /\ Cardinality(TfenvCalls("use")) <= 1
  /\ \A i \in TfenvCalls("install") :
       i > 1 /\ (i - 1) \in TfenvCalls("use") /\ spawned[i - 1].status # 0
  /\ \A k \in DOMAIN events :
       (\/ events[k].cb = "failed"
        \/ events[k].cb = "completed" /\ events[k].result # None /\ events[k].result[1].code # 0)
       => k = Len(events) /\ pc = "done"

\* the version manager fell back to install, and apply failed once and was
\* not tried again
C33_Witness ==
  /\ pc = "done"
  /\ TfenvCalls("install") # {}
  /\ \E i \in TfCalls("apply") : spawned[i].status # 0 /\ i = Len(spawned)
  /\ events[Len(events)].cb = "completed"
  /\ events[Len(events)].step = "Terraform Apply"

--------------------------------------------------------------------------
(* Registration stability *)

\* the registration fields setParams sets that are not the CLI arguments
StableFields ==
  { "workspace", "baseLocation", "envVars", "vars", "varsFiles", "init", "autoApprove", "version" }

\* seq `a` is a prefix of seq `b`
IsPrefix(a, b) == Len(a) <= Len(b) /\ SubSeq(b, 1, Len(a)) = a

\* the project with the fields updateRepo writes blanked
WithoutIdentity(project) ==
  [ project EXCEPT !.id = [ @ EXCEPT !.repo = "", !.owner = "", !.sha = "", !.branch = None ] ]

\* C34: once SetParameters has completed, no later transition changes the
\* registration's workspace, base location, env vars, vars, var-files, init
\* flag, auto-approve flag or version; the CLI-argument list keeps what it
\* had (it is at most appended to); the actions of the later steps hand the
\* registration back as they got it, but for Load Project setting the
\* project; and of a project that is set only the identity fields the
\* listener writes (repo, owner, sha, branch) change.
C34_RegistrationStable ==
  [][ HasEvent("completed", "Set Parameters")
      => /\ \A f \in StableFields : params'[f] = params[f]
         /\ (params.args = None /\ params'.args = None)
            \/ (params.args # None /\ params'.args # None
                /\ IsPrefix(params.args[1], params'.args[1]))
         /\ \A name \in Range(steps) :
              (AtStep(name) /\ RunWhen(name, Context, params))
              => \A o \in StepRun(name, ListenerStarting(listener, name, params).params) :
                   LET given == ListenerStarting(listener, name, params).params
                   IN  IF name = "Load Project"
                       THEN [ o.params EXCEPT !.project = None ] = [ given EXCEPT !.project = None ]
                       ELSE o.params = given
         /\ params.project # None
            => /\ params'.project # None
               /\ WithoutIdentity(params'.project[1]) = WithoutIdentity(params.project[1]) ]_vars

\* a push-triggered run selected the workspace and planned; the registration
\* still holds what the configuration gave, and the project names the push
C34_Witness ==
  /\ HasEvent("completed", "Select Terraform Workspace")
  /\ HasEvent("completed", "Terraform Plan")
  /\ params.workspace = Some("test")
  /\ cfg.cmdlineargs # None /\ params.args # None
  /\ Len(params.args[1]) = Len(cfg.cmdlineargs[1]) /\ Len(params.args[1]) >= 1
  /\ params.project # None
  /\ params.project[1].id.branch = Some(trigger.branch)

--------------------------------------------------------------------------
(* The command-triggered run *)

\* the steps of the command's list that come before apply
BeforeApply == { ApplySteps[i] : i \in 1..(Len(ApplySteps) - 1) }

\* the step called `name` was skipped or completed with a result of code 0
CompletedZeroOrSkipped(name) ==
  HasEvent("skipped", name) \/ CompletedWithCode(name, 0)

\* what C35 says of a command-triggered run, with `passed` deciding which
\* steps count as having gone well
RunApplyContract(passed(_)) ==
  trigger.kind = "command"
  => /\ ~HasEvent("skipped", "Terraform Apply")
     /\ TfCalls("plan") = {}
     /\ Cardinality(TfCalls("apply")) <= 1
     /\ TfCalls("apply") # {} => \A name \in BeforeApply : passed(name)
     /\ (pc = "done" /\ \A name \in BeforeApply : passed(name)) => TfCalls("apply") # {}

\* C35: in a command-triggered run the apply step's predicate is true
\* whatever auto-approve says, terraform plan is never invoked, and terraform
\* apply is invoked exactly once if and only if every step before it
\* completed with code 0 or was skipped.
C35_RunApply == RunApplyContract(CompletedZeroOrSkipped)

\* the same contract when a step that completed without any result is
\* counted with the steps that went well, as the engine counts it
C35_RunApplyCountingUndefined == RunApplyContract(StepPassed)

--------------------------------------------------------------------------
(* The listener protocol *)

\* the callbacks fired for the step called `name`, in order
CallbacksOf(name) ==
  LET RECURSIVE Pick(_)
      Pick(evs) == IF evs = <<>> THEN <<>>
                   ELSE IF Head(evs).step = name THEN << Head(evs).cb >> \o Pick(Tail(evs))
                   ELSE Pick(Tail(evs))
  IN  Pick(events)

\* what the engine did at the step called `name`, in order
OpsOf(name) ==
  LET RECURSIVE Pick(_)
      Pick(ops) == IF ops = <<>> THEN <<>>
                   ELSE IF Head(ops).step = name THEN << Head(ops).op >> \o Pick(Tail(ops))
                   ELSE Pick(Tail(ops))
  IN  Pick(trace)

\* C36: for every step of a run, the callbacks fired for it are `skipped`
\* alone when its predicate was false, `starting` then `completed` when its
\* action returned, `starting` then `failed` when its action faulted, and
\* none when the step was not reached; so `completed` and `failed` are never
\* both fired for one step. The callbacks of one step are not mixed with
\* another's, and once the pipeline has stopped no callback is fired.
C36_ListenerProtocol ==
  /\ [](\A name \in Range(steps) :
          LET cbs == CallbacksOf(name)
              ops == OpsOf(name)
          IN  /\ cbs \in { <<>>, << "skipped" >>, << "starting", "completed" >>,
                          << "starting", "failed" >> }
              /\ cbs = <<>> <=> ops = <<>>
              /\ cbs = << "skipped" >> <=> ops = << "predicate" >>
              /\ cbs = << "starting", "failed" >> <=> (ops # <<>> /\ ops[Len(ops)] = "fault")
              /\ cbs = << "starting", "completed" >> <=> (ops # <<>> /\ ops[Len(ops)] = "action"))
  /\ [](\A k \in DOMAIN events :
          (k > 1 /\ events[k].step # events[k - 1].step)
          => StepIndex(events[k].step) = StepIndex(events[k - 1].step) + 1)
  /\ [][ pc = "done" => events' = events ]_vars

\* one run in which a step was skipped, steps completed and the plan step faulted
C36_Witness ==
  /\ pc = "done"
  /\ \E name \in Range(steps) : CallbacksOf(name) = << "skipped" >>
  /\ CallbacksOf("Validate Terraform") = << "starting", "completed" >>
  /\ CallbacksOf("Terraform Plan") = << "starting", "failed" >>
  /\ CallbacksOf("Terraform Apply") = <<>>

--------------------------------------------------------------------------
(* The progress counter *)

\* the callbacks so far that report a step as skipped, completed or failed
FinishedEvents == { k \in DOMAIN events : events[k].cb \in { "skipped", "completed", "failed" } }

\* C37: at every point of every run the listener's finishedCount equals the
\* number of steps skipped, completed or failed so far; it never decreases;
\* the `starting` callback leaves it as it was; and it never exceeds the
\* step count the progress indicator shows.
C37_ProgressCounter ==
  /\ [](listener.finishedCount = Cardinality(FinishedEvents))
  /\ [](listener.finishedCount <= listener.stepCount)
  /\ [](pc # "idle" => listener.stepCount = Len(steps))
  /\ [][ listener'.finishedCount >= listener.finishedCount ]_vars
  /\ [](\A name \in Range(steps) :
          ListenerStarting(listener, name, params).listener.finishedCount = listener.finishedCount)

\* a run in which steps completed, one was skipped and the last one reached
\* faulted: the counter stands at the number of the three kinds together
C37_Witness ==
  /\ pc = "done"
  /\ \E k \in DOMAIN events : events[k].cb = "skipped"
  /\ \E k \in DOMAIN events : events[k].cb = "completed"
  /\ events[Len(events)].cb = "failed"
  /\ listener.finishedCount = Cardinality(FinishedEvents)
  /\ listener.finishedCount >= 3
  /\ listener.finishedCount < listener.stepCount

--------------------------------------------------------------------------
(* The plan step's extra argument *)

\* C38: the plan step adds -detailed-exitcode to a private copy of the
\* registration only. The plan invocation carries the flag, the shared
\* registration's CLI-argument list is after the plan step what it was
\* before, and the apply invocation that follows in the same push-triggered
\* run is built from that unchanged list and does not carry the flag.
C38_PrivateCopy ==
  /\ [][ (AtStep("Terraform Plan") /\ Len(NewSpawns) = 1)
         => /\ IsTf(NewSpawns[1], "plan")
            /\ "-detailed-exitcode" \in Range(NewSpawns[1].args)
            /\ params'.args = params.args ]_vars
  /\ [](trigger.kind = "push"
        => \A i \in TfCalls("apply") :
             /\ "-detailed-exitcode" \notin Range(spawned[i].args)
             /\ spawned[i].args = << "apply" >> \o FixedFlags("apply") \o ConfiguredArgs
                                    \o buildTfVars(params))

\* a push-triggered run with user arguments planned with the flag and then
\* applied without it
C38_Witness ==
  /\ trigger.kind = "push"
  /\ cfg.cmdlineargs # None
  /\ \E i \in TfCalls("plan") : "-detailed-exitcode" \in Range(spawned[i].args)
  /\ \E j \in TfCalls("apply") :
       /\ "-detailed-exitcode" \notin Range(spawned[j].args)
       /\ "-no-color" \in Range(spawned[j].args)

--------------------------------------------------------------------------
(* What the "Run Apply" control carries *)

\* the strings a serialized project holds
ProjectStrings(project) ==
  UNION { IF k = "id"
          THEN { project.id[f] : f \in { g \in DOMAIN project.id : g # "branch" } }
               \cup { project.id.branch[i] : i \in DOMAIN project.id.branch }
          ELSE { project[k] }
          : k \in DOMAIN project }

\* the controls of the messages sent so far
SentButtons == { sent[i].button[1] : i \in { j \in DOMAIN sent : sent[j].button # None } }

\* C39: the data serialized into every "Run Apply" control holds the project,
\* the message id and the commit url and nothing else; the project is the
\* registration's project without spawn, exec and id.credential; and neither
\* the git credential nor the cloud credential occurs anywhere in it.
C39_ControlData ==
  \A b \in SentButtons :
    /\ DOMAIN b.data = { "project", "msgId", "commitUrl" }
    /\ DOMAIN b.data.project = { "id" }
    /\ DOMAIN b.data.project.id = { "owner", "repo", "sha", "branch" }
    /\ \A f \in DOMAIN b.data.project.id : b.data.project.id[f] = params.project[1].id[f]
    /\ b.data.msgId = "apply-" \o CorrelationId
    /\ b.data.commitUrl = PushRepo.url
    /\ LET strings == ProjectStrings(b.data.project) \cup { b.data.msgId, b.data.commitUrl }
       IN  /\ params.project[1].id.credential \notin strings
           /\ params.project[1].spawn \notin strings
           /\ params.project[1].exec \notin strings
           /\ params.envVars[1]["GOOGLE_CREDENTIALS"] \notin strings

\* a plan that found changes sent the control while the registration held
\* both credentials
C39_Witness ==
  /\ SentButtons # {}
  /\ params.project # None /\ params.project[1].id.credential = "github-token"
  /\ params.envVars # None /\ params.envVars[1]["GOOGLE_CREDENTIALS"] = "gcp-secret"
  /\ \E i \in TfCalls("plan") : spawned[i].status = 2

--------------------------------------------------------------------------
(* The apply step's result *)

\* C40: when the apply step runs, its result's code is the exit status of
\* the terraform apply subprocess and its reason is the captured output; the
\* pipeline's and the handler's result code are that status, so they are 0
\* exactly when apply exited 0; and the listener records the step as failed
\* exactly when apply exited nonzero, and as completed otherwise.
C40_ApplyResult ==
  [][ (AtStep("Terraform Apply") /\ Len(NewSpawns) = 1)
      => LET status == NewSpawns[1].status
             ev == events'[Len(events')]
             line == listener'.text[Len(listener'.text)]
         IN  /\ IsTf(NewSpawns[1], "apply")
             /\ ev.cb = "completed" /\ ev.step = "Terraform Apply"
             /\ ev.result # None
             /\ ev.result[1].code = status
             /\ ev.result[1].reason = Some("*Apply Output:* apply output")
             /\ pc' = "done"
             /\ pipelineResult'[1].code = status
             /\ handlerResult'[1].code = status
             /\ (pipelineResult'[1].code = 0) <=> (status = 0)
             /\ (line = "Failed: Terraform Apply: *Apply Output:* apply output") <=> (status # 0)
             /\ (line = "Completed: Terraform Apply") <=> (status = 0)
             /\ NewSent # <<>>
                => (NewSent[Len(NewSent)].state = "failure" <=> status # 0) ]_vars

\* apply exited with a status above 1 and the handler returned that code,
\* with the transcript ending in the failure line
C40_Witness ==
  /\ pc = "done"
  /\ \E i \in TfCalls("apply") : spawned[i].status > 1 /\ handlerResult[1].code = spawned[i].status
  /\ listener.text[Len(listener.text)] = "Failed: Terraform Apply: *Apply Output:* apply output"

====
